---- MODULE Spec2Model ----
(***************************************************************************)
(* Geospatial route scheduling engine: the in-memory store (MemStorage),   *)
(* the availability-aware greedy scheduler (generateSmartSchedule) and the *)
(* booking orchestrator (generateBookingRequests, confirmBookingRequest,   *)
(* rejectBookingRequest).                                                  *)
(*                                                                         *)
(* Conventions of the model                                                *)
(*  - an optional value (null / undefined in the source) is a sequence of  *)
(*    length 0 or 1: None, Some(x);                                        *)
(*  - a Date is [day, min]: a calendar day number (day % 7 = 0 is Sunday)  *)
(*    and the minute of that day;                                          *)
(*  - a wall-clock "HH:MM" string is [h, m];                               *)
(*  - coordinates are integer millidegrees of latitude on one meridian, so *)
(*    the Haversine distance is the arc R * |dLat|, kept in thousandths of *)
(*    the unit (metres for R in km, millimiles for R in miles);            *)
(*  - randomUUID ids of appointments and booking requests are the position *)
(*    of the record in the store's insertion order;                        *)
(*  - new Date() in confirm / reject is a logical timestamp: the number of *)
(*    responses given so far plus one.                                     *)
(***************************************************************************)
EXTENDS Integers, Sequences, FiniteSets, TLC

VARIABLES
    clients,              \* MemStorage.clients, insertion order
    properties,           \* MemStorage.properties, insertion order
    propertyPreferences,  \* MemStorage.propertyPreferences, insertion order
    showingSlots,         \* MemStorage.showingSlots, insertion order
    appointments,         \* MemStorage.appointments, insertion order
    bookingRequests,      \* MemStorage.bookingRequests, insertion order
    pc,                   \* "idle", or "confirm" inside a confirmBookingRequest call
    frame,                \* locals of the confirmBookingRequest call in progress
    call,                 \* the last operation invoked, with the request id given to it
    result                \* what the last operation returned or threw

vars == <<clients, properties, propertyPreferences, showingSlots, appointments,
          bookingRequests, pc, frame, call, result>>

----------------------------------------------------------------------------
(* Bounds of the model *)

MaxRequests == 2      \* booking requests the store may hold
MaxStops == 3         \* appointments of the day handed to optimizeRoute
MaxAppointments == 2  \* appointments the store may hold when a createAppointment call is rejected
MaxLeg == 1500        \* longest leg handed to the travel-time estimators, in thousandths of the unit

----------------------------------------------------------------------------
(* Generic helpers *)

None == <<>>
Some(x) == <<x>>
IsSome(o) == Len(o) > 0
Val(o) == o[1]

Range(s) == {s[i] : i \in 1..Len(s)}

RECURSIVE Flatten(_)
Flatten(ss) == IF ss = <<>> THEN <<>> ELSE Head(ss) \o Flatten(Tail(ss))

CeilDiv(a, b) == (a + b - 1) \div b

Abs(x) == IF x < 0 THEN 0 - x ELSE x

Time(h, m) == [h |-> h, m |-> m]

----------------------------------------------------------------------------
(* MemStorage reads *)

getClient(id) ==
    LET m == SelectSeq(clients, LAMBDA c : c.id = id)
    IN IF m = <<>> THEN None ELSE Some(m[1])

getClientsByAgent(agentId) == SelectSeq(clients, LAMBDA c : c.agentId = agentId)

getProperty(id) ==
    LET m == SelectSeq(properties, LAMBDA p : p.id = id)
    IN IF m = <<>> THEN None ELSE Some(m[1])

getPreferencesByClient(clientId) ==
    SelectSeq(propertyPreferences, LAMBDA p : p.clientId = clientId)

getShowingSlot(id) ==
    LET m == SelectSeq(showingSlots, LAMBDA s : s.id = id)
    IN IF m = <<>> THEN None ELSE Some(m[1])

getAllShowingSlots == showingSlots

toDateString(date) == date.day

\* getAvailableSlots without the isBooked filter.
getAvailableSlots_ignoreBooked(propertyId, date) ==
    SelectSeq(showingSlots, LAMBDA s :
        s.propertyId = propertyId /\ s.date.day = date.day)

getAvailableSlots(propertyId, date) ==
    LET startOfDay == [day |-> date.day, min |-> 0]
        endOfDay == [day |-> date.day, min |-> 23 * 60 + 59]
        notBefore(d, e) == d.day > e.day \/ (d.day = e.day /\ d.min >= e.min)
    IN SelectSeq(showingSlots, LAMBDA s :
            /\ s.propertyId = propertyId
            /\ s.isBooked = "false"
            /\ notBefore(s.date, startOfDay)
            /\ notBefore(endOfDay, s.date))

getBookingRequest(id) ==
    IF id \in 1..Len(bookingRequests) THEN Some(bookingRequests[id]) ELSE None

getBookingRequestsByDate(agentId, date) ==
    SelectSeq(bookingRequests, LAMBDA r :
        /\ r.agentId = agentId
        /\ IsSome(getShowingSlot(r.slotId))
        /\ toDateString(Val(getShowingSlot(r.slotId)).date) = toDateString(date))

----------------------------------------------------------------------------
(* bookingOrchestrator.ts: pure helpers *)

BO_R == 6371          \* Earth's radius in kilometres

\* Haversine on one meridian: R * |lat2 - lat1| * PI / 180, in metres.
BO_calculateDistance(lat1, lon1, lat2, lon2) ==
    (Abs(lat2 - lat1) * ((BO_R * 31416) \div 1800)) \div 1000

BO_avgSpeedKmh == 55

\* Math.ceil((distanceKm / avgSpeedKmh) * 60), the distance given in metres.
BO_calculateTravelTime(distance) ==
    CeilDiv(distance * 60, BO_avgSpeedKmh * 1000)

timeToMinutes(timeStr) == timeStr.h * 60 + timeStr.m

\* Array.prototype.sort, cmp[i, j] being the comparator's result on (s[i], s[j])
\* (a total preorder): the stable sort, every element placed after those that
\* compare lower and after the equal ones that precede it in the input.
SortStable(s, cmp) ==
    LET n == Len(s)
        rank(i) == 1 + Cardinality({j \in 1..n :
                        \/ cmp[j, i] < 0
                        \/ (cmp[j, i] = 0 /\ j < i)})
    IN [k \in 1..n |-> s[CHOOSE i \in 1..n : rank(i) = k]]

\* Array.prototype.sort as the engine executes it on fewer than 64 elements,
\* whatever the comparator: the longest initial run (reversed when strictly
\* descending), then binary insertion of the other elements. work holds
\* positions of the input; cmp[i, j] is the comparator's result on (s[i], s[j]).
\* On a total preorder this is the stable sort.
RECURSIVE countRun(_, _, _, _)
countRun(cmp, n, isDescending, idx) ==
    IF idx > n THEN idx - 1
    ELSE IF isDescending /\ cmp[idx, idx - 1] >= 0 THEN idx - 1
    ELSE IF ~isDescending /\ cmp[idx, idx - 1] < 0 THEN idx - 1
    ELSE countRun(cmp, n, isDescending, idx + 1)

\* The number of elements of work[1..start-1] the pivot is placed after.
RECURSIVE insertionPoint(_, _, _, _, _)
insertionPoint(cmp, work, pivot, left, right) ==
    IF left >= right THEN left
    ELSE LET mid == left + ((right - left) \div 2)
         IN IF cmp[pivot, work[mid + 1]] < 0
            THEN insertionPoint(cmp, work, pivot, left, mid)
            ELSE insertionPoint(cmp, work, pivot, mid + 1, right)

RECURSIVE binaryInsertionSort(_, _, _)
binaryInsertionSort(cmp, work, start) ==
    IF start > Len(work) THEN work
    ELSE LET pivot == work[start]
             left == insertionPoint(cmp, work, pivot, 0, start - 1)
         IN binaryInsertionSort(cmp,
                SubSeq(work, 1, left) \o <<pivot>> \o SubSeq(work, left + 1, start - 1)
                    \o SubSeq(work, start + 1, Len(work)),
                start + 1)

ArraySort(s, cmp) ==
    LET n == Len(s)
    IN IF n < 2 THEN s
       ELSE LET isDescending == cmp[2, 1] < 0
                runLength == countRun(cmp, n, isDescending, 3)
                work == [k \in 1..n |->
                            IF isDescending /\ k <= runLength
                            THEN runLength + 1 - k ELSE k]
                sorted == binaryInsertionSort(cmp, work, runLength + 1)
            IN [k \in 1..n |-> s[sorted[k]]]

\* !property.latitude || !property.longitude
NoCoordinates(property) == ~IsSome(property.latitude) \/ ~IsSome(property.longitude)

----------------------------------------------------------------------------
(* MemStorage deletions *)

\* MemStorage.deleteClient: this.clients.delete(id)
deleteClient(id) ==
    /\ pc = "idle"
    /\ clients' = SelectSeq(clients, LAMBDA c : c.id # id)
    /\ call' = [op |-> "deleteClient", id |-> 0]
    /\ result' = [error |-> "", created |-> <<>>]
    /\ UNCHANGED <<properties, propertyPreferences, showingSlots, appointments,
                   bookingRequests, pc, frame>>

\* MemStorage.deleteShowingSlot: this.showingSlots.delete(id)
deleteShowingSlot(id) ==
    /\ pc = "idle"
    /\ showingSlots' = SelectSeq(showingSlots, LAMBDA sl : sl.id # id)
    /\ call' = [op |-> "deleteShowingSlot", id |-> 0]
    /\ result' = [error |-> "", created |-> <<>>]
    /\ UNCHANGED <<clients, properties, propertyPreferences, appointments,
                   bookingRequests, pc, frame>>

----------------------------------------------------------------------------
(* generateBookingRequests *)

\* The filter on resolved clients left out: an unknown id stays in the list.
validClients_unfiltered(clientIds) ==
    [i \in 1..Len(clientIds) |->
        IF IsSome(getClient(clientIds[i])) THEN Val(getClient(clientIds[i]))
        ELSE [id |-> clientIds[i]]]

\* Step 1: the supplied ids that resolve to a client, in argument order.
validClients(clientIds) ==
    LET found == SelectSeq(clientIds, LAMBDA id : IsSome(getClient(id)))
    IN [i \in 1..Len(found) |-> Val(getClient(found[i]))]

\* propertyClientMap.get(propertyId): one entry per (client, preference) pair.
propertyClientMapGet(vc, propertyId) ==
    Flatten([i \in 1..Len(vc) |->
        LET prefs == SelectSeq(getPreferencesByClient(vc[i].id),
                               LAMBDA p : p.propertyId = propertyId)
        IN [j \in 1..Len(prefs) |-> vc[i].id]])

\* Step 2: the slots of the target date.
relevantSlots(date) ==
    SelectSeq(getAllShowingSlots, LAMBDA s : toDateString(s.date) = toDateString(date))

\* No slot counts as referenced.
bookedSlotIds_none(agentId, date) == {}

\* Every request of the agent on the date counts, whatever its status.
bookedSlotIds_anyStatus(agentId, date) ==
    {r.slotId : r \in Range(getBookingRequestsByDate(agentId, date))}

\* Slot ids already referenced by a pending or confirmed request of the agent.
bookedSlotIds(agentId, date) ==
    {r.slotId : r \in {q \in Range(getBookingRequestsByDate(agentId, date)) :
                          q.status = "pending" \/ q.status = "confirmed"}}

\* The capacity check left out.
CapacityOk_unchecked(clientsInterested, slot) == TRUE

\* The capacity check of step 3.
CapacityOk(clientsInterested, slot) == Len(clientsInterested) <= slot.maxCapacity

\* Step 3: the slot candidates, sorted by start time.
slotCandidates(agentId, date, vc) ==
    LET taken == bookedSlotIds(agentId, date)
        eligible == SelectSeq(relevantSlots(date), LAMBDA s :
            /\ ~(s.isBooked = "true" \/ s.id \in taken)
            /\ IsSome(getProperty(s.propertyId))
            /\ Len(propertyClientMapGet(vc, s.propertyId)) > 0
            /\ CapacityOk(propertyClientMapGet(vc, s.propertyId), s))
        cands == [i \in 1..Len(eligible) |->
            [slot |-> eligible[i],
             property |-> Val(getProperty(eligible[i].propertyId)),
             startMinutes |-> timeToMinutes(eligible[i].startTime),
             endMinutes |-> timeToMinutes(eligible[i].endTime),
             clientIds |-> propertyClientMapGet(vc, eligible[i].propertyId)]]
    IN SortStable(cands, [a, b \in 1..Len(cands) |->
                            cands[a].startMinutes - cands[b].startMinutes])

\* The forward pass with a strict arrival check: arriving exactly at the
\* slot's start is not accepted.
RECURSIVE selectBookings_strict(_, _, _, _, _, _, _)
selectBookings_strict(cands, startMinutes, endMinutes, currentTime, currentLocation, bookedProperties, selected) ==
    IF cands = <<>> THEN selected
    ELSE
        LET candidate == Head(cands)
            rest == Tail(cands)
            skip == selectBookings_strict(rest, startMinutes, endMinutes, currentTime,
                                          currentLocation, bookedProperties, selected)
        IN  IF candidate.startMinutes < startMinutes \/ candidate.endMinutes > endMinutes
            THEN skip
            ELSE IF candidate.property.id \in bookedProperties THEN skip
            ELSE IF NoCoordinates(candidate.property) THEN skip
            ELSE
                LET distance == BO_calculateDistance(
                        currentLocation.lat, currentLocation.lng,
                        Val(candidate.property.latitude),
                        Val(candidate.property.longitude))
                    travelTime == BO_calculateTravelTime(distance)
                    arrivalTime == currentTime + travelTime
                IN  IF arrivalTime >= candidate.startMinutes THEN skip
                    ELSE selectBookings_strict(rest, startMinutes, endMinutes,
                            candidate.endMinutes,
                            [lat |-> Val(candidate.property.latitude),
                             lng |-> Val(candidate.property.longitude)],
                            bookedProperties \cup {candidate.property.id},
                            Append(selected,
                                [slot |-> candidate.slot,
                                 property |-> candidate.property,
                                 clientIds |-> candidate.clientIds,
                                 travelTimeFromPrevious |->
                                    IF Len(selected) > 0 THEN Some(travelTime) ELSE None,
                                 distanceFromPrevious |->
                                    IF Len(selected) > 0 THEN Some(distance) ELSE None]))

\* The forward pass without the working-hours check.
RECURSIVE selectBookings_anyHours(_, _, _, _, _, _, _)
selectBookings_anyHours(cands, startMinutes, endMinutes, currentTime, currentLocation, bookedProperties, selected) ==
    IF cands = <<>> THEN selected
    ELSE
        LET candidate == Head(cands)
            rest == Tail(cands)
            skip == selectBookings_anyHours(rest, startMinutes, endMinutes, currentTime,
                                   currentLocation, bookedProperties, selected)
        IN  IF candidate.property.id \in bookedProperties THEN skip
            ELSE IF NoCoordinates(candidate.property) THEN skip
            ELSE
                LET distance == BO_calculateDistance(
                        currentLocation.lat, currentLocation.lng,
                        Val(candidate.property.latitude),
                        Val(candidate.property.longitude))
                    travelTime == BO_calculateTravelTime(distance)
                    arrivalTime == currentTime + travelTime
                IN  IF arrivalTime > candidate.startMinutes THEN skip
                    ELSE selectBookings_anyHours(rest, startMinutes, endMinutes,
                            candidate.endMinutes,
                            [lat |-> Val(candidate.property.latitude),
                             lng |-> Val(candidate.property.longitude)],
                            bookedProperties \cup {candidate.property.id},
                            Append(selected,
                                [slot |-> candidate.slot,
                                 property |-> candidate.property,
                                 clientIds |-> candidate.clientIds,
                                 travelTimeFromPrevious |->
                                    IF Len(selected) > 0 THEN Some(travelTime) ELSE None,
                                 distanceFromPrevious |->
                                    IF Len(selected) > 0 THEN Some(distance) ELSE None]))

\* The forward pass without the set of booked properties.
RECURSIVE selectBookings_revisit(_, _, _, _, _, _, _)
selectBookings_revisit(cands, startMinutes, endMinutes, currentTime, currentLocation, bookedProperties, selected) ==
    IF cands = <<>> THEN selected
    ELSE
        LET candidate == Head(cands)
            rest == Tail(cands)
            skip == selectBookings_revisit(rest, startMinutes, endMinutes, currentTime,
                                   currentLocation, bookedProperties, selected)
        IN  IF candidate.startMinutes < startMinutes \/ candidate.endMinutes > endMinutes
            THEN skip
            ELSE IF NoCoordinates(candidate.property) THEN skip
            ELSE
                LET distance == BO_calculateDistance(
                        currentLocation.lat, currentLocation.lng,
                        Val(candidate.property.latitude),
                        Val(candidate.property.longitude))
                    travelTime == BO_calculateTravelTime(distance)
                    arrivalTime == currentTime + travelTime
                IN  IF arrivalTime > candidate.startMinutes THEN skip
                    ELSE selectBookings_revisit(rest, startMinutes, endMinutes,
                            candidate.endMinutes,
                            [lat |-> Val(candidate.property.latitude),
                             lng |-> Val(candidate.property.longitude)],
                            bookedProperties \cup {candidate.property.id},
                            Append(selected,
                                [slot |-> candidate.slot,
                                 property |-> candidate.property,
                                 clientIds |-> candidate.clientIds,
                                 travelTimeFromPrevious |->
                                    IF Len(selected) > 0 THEN Some(travelTime) ELSE None,
                                 distanceFromPrevious |->
                                    IF Len(selected) > 0 THEN Some(distance) ELSE None]))

\* Step 4: the forward pass over the sorted candidates.
RECURSIVE selectBookings(_, _, _, _, _, _, _)
selectBookings(cands, startMinutes, endMinutes, currentTime, currentLocation, bookedProperties, selected) ==
    IF cands = <<>> THEN selected
    ELSE
        LET candidate == Head(cands)
            rest == Tail(cands)
            skip == selectBookings(rest, startMinutes, endMinutes, currentTime,
                                   currentLocation, bookedProperties, selected)
        IN  IF candidate.startMinutes < startMinutes \/ candidate.endMinutes > endMinutes
            THEN skip
            ELSE IF candidate.property.id \in bookedProperties THEN skip
            ELSE IF NoCoordinates(candidate.property) THEN skip
            ELSE
                LET distance == BO_calculateDistance(
                        currentLocation.lat, currentLocation.lng,
                        Val(candidate.property.latitude),
                        Val(candidate.property.longitude))
                    travelTime == BO_calculateTravelTime(distance)
                    arrivalTime == currentTime + travelTime
                IN  IF arrivalTime > candidate.startMinutes THEN skip
                    ELSE selectBookings(rest, startMinutes, endMinutes,
                            candidate.endMinutes,
                            [lat |-> Val(candidate.property.latitude),
                             lng |-> Val(candidate.property.longitude)],
                            bookedProperties \cup {candidate.property.id},
                            Append(selected,
                                [slot |-> candidate.slot,
                                 property |-> candidate.property,
                                 clientIds |-> candidate.clientIds,
                                 travelTimeFromPrevious |->
                                    IF Len(selected) > 0 THEN Some(travelTime) ELSE None,
                                 distanceFromPrevious |->
                                    IF Len(selected) > 0 THEN Some(distance) ELSE None]))

\* Step 5 and MemStorage.createBookingRequest: the records to persist.
newBookingRequests(agentId, selected) ==
    [i \in 1..Len(selected) |->
        [id |-> Len(bookingRequests) + i,
         agentId |-> agentId,
         propertyId |-> selected[i].property.id,
         slotId |-> selected[i].slot.id,
         clientIds |-> selected[i].clientIds,
         status |-> "pending",
         notes |-> <<"Automated booking request", Len(selected[i].clientIds)>>,
         travelTimeFromPrevious |-> selected[i].travelTimeFromPrevious,
         distanceFromPrevious |->
            IF IsSome(selected[i].distanceFromPrevious)
               /\ Val(selected[i].distanceFromPrevious) # 0
            THEN selected[i].distanceFromPrevious ELSE None,
         respondedAt |-> None]]

generateBookingRequests(agentId, date, clientIds, startLocation, startTime, endTime) ==
    /\ pc = "idle"
    /\ call' = [op |-> "generateBookingRequests", id |-> 0]
    /\ LET vc == validClients(clientIds)
       IN IF Len(vc) = 0
          THEN /\ result' = [error |-> "No valid clients found", created |-> <<>>]
               /\ UNCHANGED bookingRequests
          ELSE LET selected == selectBookings(slotCandidates(agentId, date, vc),
                                   timeToMinutes(startTime), timeToMinutes(endTime),
                                   timeToMinutes(startTime), startLocation, {}, <<>>)
                   created == newBookingRequests(agentId, selected)
               IN /\ Len(bookingRequests) + Len(created) <= MaxRequests
                  /\ bookingRequests' = bookingRequests \o created
                  /\ result' = [error |-> "",
                                created |-> [i \in 1..Len(created) |-> created[i].id]]
    /\ UNCHANGED <<clients, properties, propertyPreferences, showingSlots,
                   appointments, pc, frame>>

----------------------------------------------------------------------------
(* confirmBookingRequest: the checks, then one createAppointment per client,  *)
(* then updateBookingRequest; every await is a step.                          *)

\* new Date(): the logical time of the next response.
now == 1 + Cardinality({i \in 1..Len(bookingRequests) :
                            IsSome(bookingRequests[i].respondedAt)})

\* new Date(d); setHours(h, m, 0, 0)
setHours(d, timeStr) == [day |-> d.day, min |-> timeStr.h * 60 + timeStr.m]

\* The default duration of an appointment instead of the slot's length.
slotDuration_sixty(slot) == 60

\* (endHour * 60 + endMinute) - (startHour * 60 + startMinute)
slotDuration(slot) ==
    (slot.endTime.h * 60 + slot.endTime.m) - (slot.startTime.h * 60 + slot.startTime.m)

\* MemStorage.createAppointment; slotId is a history field naming the slot the
\* appointment was made for (the source keeps no such reference).
newAppointment(agentId, propertyId, clientId, scheduledDate, duration, bookingRequestId, slotId) ==
    [id |-> Len(appointments) + 1,
     agentId |-> agentId,
     propertyId |-> propertyId,
     clientId |-> clientId,
     scheduledDate |-> scheduledDate,
     duration |-> duration,
     status |-> "scheduled",
     bookingRequestId |-> bookingRequestId,
     slotId |-> slotId]

\* MemStorage.updateBookingRequest: { ...request, ...updates }
updateBookingRequest(id, status, respondedAt, notes) ==
    [bookingRequests EXCEPT ![id] =
        [@ EXCEPT !.status = status, !.respondedAt = respondedAt, !.notes = notes]]

\* Every status is accepted.
confirmable_any(request) == TRUE

\* The status check of confirmBookingRequest.
confirmable(request) == request.status = "pending"

\* confirmBookingRequest with updateBookingRequest issued before the loop.
confirmBegin_flipFirst(requestId) ==
    /\ pc = "idle"
    /\ call' = [op |-> "confirmBookingRequest", id |-> requestId]
    /\ LET request == getBookingRequest(requestId)
       IN IF ~IsSome(request)
          THEN /\ result' = [error |-> "Booking request not found", created |-> <<>>]
               /\ UNCHANGED <<pc, frame, bookingRequests>>
          ELSE IF ~confirmable(Val(request))
          THEN /\ result' = [error |-> "Only pending requests can be confirmed",
                             created |-> <<>>]
               /\ UNCHANGED <<pc, frame, bookingRequests>>
          ELSE IF ~IsSome(getShowingSlot(Val(request).slotId))
          THEN /\ result' = [error |-> "Showing slot not found", created |-> <<>>]
               /\ UNCHANGED <<pc, frame, bookingRequests>>
          ELSE LET slot == Val(getShowingSlot(Val(request).slotId))
               IN /\ pc' = "confirm"
                  /\ frame' = Some([request |-> Val(request),
                                    slotId |-> slot.id,
                                    clients |-> [i \in 1..Len(Val(request).clientIds) |->
                                                    getClient(Val(request).clientIds[i])],
                                    i |-> 1,
                                    appointmentStart |-> setHours(slot.date, slot.startTime),
                                    duration |-> slotDuration(slot)])
                  /\ result' = [error |-> "", created |-> <<>>]
                  /\ bookingRequests' = updateBookingRequest(requestId, "confirmed",
                                            Some(now), Val(request).notes)
    /\ UNCHANGED <<clients, properties, propertyPreferences, showingSlots, appointments>>

confirmBegin(requestId) ==
    /\ pc = "idle"
    /\ call' = [op |-> "confirmBookingRequest", id |-> requestId]
    /\ LET request == getBookingRequest(requestId)
       IN IF ~IsSome(request)
          THEN /\ result' = [error |-> "Booking request not found", created |-> <<>>]
               /\ UNCHANGED <<pc, frame, bookingRequests>>
          ELSE IF ~confirmable(Val(request))
          THEN /\ result' = [error |-> "Only pending requests can be confirmed",
                             created |-> <<>>]
               /\ UNCHANGED <<pc, frame, bookingRequests>>
          ELSE IF ~IsSome(getShowingSlot(Val(request).slotId))
          THEN /\ result' = [error |-> "Showing slot not found", created |-> <<>>]
               /\ UNCHANGED <<pc, frame, bookingRequests>>
          ELSE LET slot == Val(getShowingSlot(Val(request).slotId))
               IN /\ pc' = "confirm"
                  /\ frame' = Some([request |-> Val(request),
                                    slotId |-> slot.id,
                                    clients |-> [i \in 1..Len(Val(request).clientIds) |->
                                                    getClient(Val(request).clientIds[i])],
                                    i |-> 1,
                                    appointmentStart |-> setHours(slot.date, slot.startTime),
                                    duration |-> slotDuration(slot)])
                  /\ result' = [error |-> "", created |-> <<>>]
                  /\ UNCHANGED bookingRequests
    /\ UNCHANGED <<clients, properties, propertyPreferences, showingSlots, appointments>>

confirmCreateAppointment ==
    /\ pc = "confirm"
    /\ Val(frame).i <= Len(Val(frame).clients)
    /\ LET f == Val(frame)
           client == f.clients[f.i]
       IN /\ IF ~IsSome(client)
             THEN UNCHANGED <<appointments, result>>
             ELSE /\ appointments' = Append(appointments,
                        newAppointment(f.request.agentId, f.request.propertyId,
                                       Val(client).id, f.appointmentStart, f.duration,
                                       Some(f.request.id), f.slotId))
                  /\ result' = [result EXCEPT
                                  !.created = Append(@, Len(appointments) + 1)]
          /\ frame' = Some([f EXCEPT !.i = @ + 1])
    /\ UNCHANGED <<clients, properties, propertyPreferences, showingSlots,
                   bookingRequests, pc, call>>

\* storage.createAppointment rejects for the current client, with the created
\* appointments taken back.
confirmCreateAppointmentFails_rollback ==
    /\ pc = "confirm"
    /\ Val(frame).i <= Len(Val(frame).clients)
    /\ IsSome(Val(frame).clients[Val(frame).i])
    /\ Len(appointments) <= MaxAppointments
    /\ appointments' = SelectSeq(appointments,
                                 LAMBDA a : a.id \notin Range(result.created))
    /\ result' = [result EXCEPT !.error = "createAppointment failed"]
    /\ pc' = "idle"
    /\ frame' = None
    /\ UNCHANGED <<clients, properties, propertyPreferences, showingSlots,
                   bookingRequests, call>>

\* storage.createAppointment rejects for the current client: the await throws,
\* nothing catches it inside confirmBookingRequest, and the call ends without
\* reaching updateBookingRequest. result.created keeps the appointments the
\* call had created before.
confirmCreateAppointmentFails ==
    /\ pc = "confirm"
    /\ Val(frame).i <= Len(Val(frame).clients)
    /\ IsSome(Val(frame).clients[Val(frame).i])
    /\ Len(appointments) <= MaxAppointments
    /\ result' = [result EXCEPT !.error = "createAppointment failed"]
    /\ pc' = "idle"
    /\ frame' = None
    /\ UNCHANGED <<clients, properties, propertyPreferences, showingSlots,
                   appointments, bookingRequests, call>>

confirmUpdateRequest ==
    /\ pc = "confirm"
    /\ Val(frame).i > Len(Val(frame).clients)
    /\ bookingRequests' = updateBookingRequest(Val(frame).request.id, "confirmed",
                              Some(now), bookingRequests[Val(frame).request.id].notes)
    /\ pc' = "idle"
    /\ frame' = None
    /\ UNCHANGED <<clients, properties, propertyPreferences, showingSlots,
                   appointments, call, result>>

----------------------------------------------------------------------------
(* confirmBookingRequest, two calls in progress at once: pc[r] is the        *)
(* position of call r and frame.runs[r] its locals. The reads (request, slot, *)
(* clients) are one step; every createAppointment and the final              *)
(* updateBookingRequest are steps of their own.                              *)

\* The locals of a call that has not started.
noConfirmation ==
    [requestId |-> 0, request |-> None, slotId |-> "", clients |-> <<>>, i |-> 1,
     appointmentStart |-> [day |-> 0, min |-> 0], duration |-> 0]

confirmRead(r, requestId) ==
    /\ pc[r] = "start"
    /\ call' = [op |-> "confirmBookingRequest", id |-> requestId]
    /\ LET request == getBookingRequest(requestId)
       IN IF ~IsSome(request)
          THEN /\ result' = [error |-> "Booking request not found", created |-> <<>>]
               /\ pc' = [pc EXCEPT ![r] = "done"]
               /\ UNCHANGED frame
          ELSE IF ~confirmable(Val(request))
          THEN /\ result' = [error |-> "Only pending requests can be confirmed",
                             created |-> <<>>]
               /\ pc' = [pc EXCEPT ![r] = "done"]
               /\ UNCHANGED frame
          ELSE IF ~IsSome(getShowingSlot(Val(request).slotId))
          THEN /\ result' = [error |-> "Showing slot not found", created |-> <<>>]
               /\ pc' = [pc EXCEPT ![r] = "done"]
               /\ UNCHANGED frame
          ELSE LET slot == Val(getShowingSlot(Val(request).slotId))
               IN /\ pc' = [pc EXCEPT ![r] = "confirm"]
                  /\ frame' = [runs |-> [frame.runs EXCEPT ![r] =
                                   [requestId |-> requestId,
                                    request |-> request,
                                    slotId |-> slot.id,
                                    clients |-> [i \in 1..Len(Val(request).clientIds) |->
                                                    getClient(Val(request).clientIds[i])],
                                    i |-> 1,
                                    appointmentStart |-> setHours(slot.date, slot.startTime),
                                    duration |-> slotDuration(slot)]]]
                  /\ UNCHANGED result
    /\ UNCHANGED <<clients, properties, propertyPreferences, showingSlots,
                   appointments, bookingRequests>>

confirmCreate(r) ==
    /\ pc[r] = "confirm"
    /\ frame.runs[r].i <= Len(frame.runs[r].clients)
    /\ call' = [op |-> "confirmBookingRequest", id |-> frame.runs[r].requestId]
    /\ LET f == frame.runs[r]
           client == f.clients[f.i]
       IN /\ IF ~IsSome(client)
             THEN UNCHANGED appointments
             ELSE appointments' = Append(appointments,
                        newAppointment(Val(f.request).agentId, Val(f.request).propertyId,
                                       Val(client).id, f.appointmentStart, f.duration,
                                       Some(f.requestId), f.slotId))
          /\ frame' = [runs |-> [frame.runs EXCEPT ![r] = [f EXCEPT !.i = @ + 1]]]
    /\ UNCHANGED <<clients, properties, propertyPreferences, showingSlots,
                   bookingRequests, pc, result>>

confirmUpdate(r) ==
    /\ pc[r] = "confirm"
    /\ frame.runs[r].i > Len(frame.runs[r].clients)
    /\ call' = [op |-> "confirmBookingRequest", id |-> frame.runs[r].requestId]
    /\ bookingRequests' = updateBookingRequest(frame.runs[r].requestId, "confirmed",
                              Some(now), bookingRequests[frame.runs[r].requestId].notes)
    /\ pc' = [pc EXCEPT ![r] = "done"]
    /\ result' = [error |-> "", created |-> <<>>]
    /\ UNCHANGED <<clients, properties, propertyPreferences, showingSlots,
                   appointments, frame>>

----------------------------------------------------------------------------
(* rejectBookingRequest *)

\* Every status is accepted.
rejectable_any(request) == TRUE

\* Only a confirmed request is refused.
rejectable_notConfirmed(request) == request.status # "confirmed"

\* The status check of rejectBookingRequest.
rejectable(request) == request.status = "pending"

rejectBookingRequest(requestId, reason) ==
    /\ pc = "idle"
    /\ call' = [op |-> "rejectBookingRequest", id |-> requestId]
    /\ LET request == getBookingRequest(requestId)
       IN IF ~IsSome(request)
          THEN /\ result' = [error |-> "Booking request not found", created |-> <<>>]
               /\ UNCHANGED bookingRequests
          ELSE IF ~rejectable(Val(request))
          THEN /\ result' = [error |-> "Only pending requests can be rejected",
                             created |-> <<>>]
               /\ UNCHANGED bookingRequests
          ELSE /\ bookingRequests' = updateBookingRequest(requestId, "rejected",
                        Some(now),
                        IF IsSome(reason) /\ Val(reason) # ""
                        THEN <<"Rejected", Val(reason)>> ELSE Val(request).notes)
               /\ result' = [error |-> "", created |-> <<>>]
    /\ UNCHANGED <<clients, properties, propertyPreferences, showingSlots,
                   appointments, pc, frame>>

----------------------------------------------------------------------------
(* smartScheduler.ts *)

SS_R == 3959          \* Earth's radius in miles

\* Haversine on one meridian: R * |lat2 - lat1| * PI / 180, in millimiles.
SS_calculateDistance(lat1, lon1, lat2, lon2) ==
    (Abs(lat2 - lat1) * ((SS_R * 31416) \div 1800)) \div 1000

SS_avgSpeedMph == 35

\* Math.ceil((distance / 35) * 60), the distance given in millimiles.
SS_calculateTravelTime(distance) == CeilDiv(distance * 60, SS_avgSpeedMph * 1000)

dayNames == <<"Sunday", "Monday", "Tuesday", "Wednesday", "Thursday", "Friday",
              "Saturday">>

\* date.toLocaleDateString('en-US', { weekday: 'long' })
dayOfWeek(date) == dayNames[(date.day % 7) + 1]

\* Every slot taken for a morning slot.
timeSlotOf_morning(slot) == "morning"

\* slotHour < 12 ? 'morning' : slotHour < 17 ? 'afternoon' : 'evening'
timeSlotOf(slot) ==
    LET slotHour == slot.startTime.h
    IN IF slotHour < 12 THEN "morning"
       ELSE IF slotHour < 17 THEN "afternoon" ELSE "evening"

\* The filter on preferredDays left out.
availableClients_all(agentId, date) == getClientsByAgent(agentId)

\* Step 1: the agent's clients available on the weekday of the date.
availableClients(agentId, date) ==
    SelectSeq(getClientsByAgent(agentId), LAMBDA c : dayOfWeek(date) \in c.preferredDays)

\* Step 2: one candidate per (client, preference, unbooked slot in a preferred bucket).
scheduleCandidates(agentId, date) ==
    LET avail == availableClients(agentId, date)
        ofPreference(client, preference) ==
            IF ~IsSome(getProperty(preference.propertyId)) THEN <<>>
            ELSE LET slots == SelectSeq(getAvailableSlots(preference.propertyId, date),
                                  LAMBDA s : timeSlotOf(s) \in client.preferredTimeSlots)
                 IN [k \in 1..Len(slots) |->
                        [client |-> client,
                         property |-> Val(getProperty(preference.propertyId)),
                         slot |-> slots[k],
                         preference |-> preference]]
        ofClient(client) ==
            LET prefs == getPreferencesByClient(client.id)
            IN Flatten([j \in 1..Len(prefs) |-> ofPreference(client, prefs[j])])
    IN Flatten([i \in 1..Len(avail) |-> ofClient(avail[i])])

\* a.localeCompare(b) on zero-padded "HH:MM" strings
localeCompare(a, b) ==
    IF a.h < b.h \/ (a.h = b.h /\ a.m < b.m) THEN 0 - 1
    ELSE IF a = b THEN 0 ELSE 1

\* preference.priority || 99
priorityOr99(preference) == IF preference.priority = 0 THEN 99 ELSE preference.priority

\* Step 3: the comparator of candidates.sort
compareCandidates(a, b) ==
    IF a.preference.priority # b.preference.priority
    THEN priorityOr99(a.preference) - priorityOr99(b.preference)
    ELSE localeCompare(a.slot.startTime, b.slot.startTime)

\* The pool without the reduction to one candidate per (client, property).
selectedCandidates_all(sorted) == sorted

\* The first candidate of every (client, property) pair, in sorted order.
selectedCandidates(sorted) ==
    LET keep == {i \in 1..Len(sorted) :
                    ~\E j \in 1..(i - 1) :
                        /\ sorted[j].client.id = sorted[i].client.id
                        /\ sorted[j].property.id = sorted[i].property.id}
    IN [k \in 1..Cardinality(keep) |->
            sorted[CHOOSE i \in keep : Cardinality({j \in keep : j < i}) = k - 1]]

\* The scan without the check that the slot can be reached in time.
RECURSIVE findBest_anyTime(_, _, _, _, _, _)
findBest_anyTime(pool, i, visitedSlots, currentLocation, currentMinutes, best) ==
    IF i > Len(pool) THEN best
    ELSE
        LET candidate == pool[i]
            next(b) == findBest_anyTime(pool, i + 1, visitedSlots, currentLocation,
                                currentMinutes, b)
        IN  IF NoCoordinates(candidate.property) THEN next(best)
            ELSE IF candidate.slot.id \in visitedSlots THEN next(best)
            ELSE
                LET distance == SS_calculateDistance(
                        currentLocation.lat, currentLocation.lng,
                        Val(candidate.property.latitude),
                        Val(candidate.property.longitude))
                    earliestNextStart == currentMinutes + SS_calculateTravelTime(distance)
                IN  IF best.index = 0 \/ distance < best.distance
                    THEN next([index |-> i, distance |-> distance])
                    ELSE next(best)

\* The scan that keeps the first reachable candidate, whatever its distance.
RECURSIVE findBest_firstFound(_, _, _, _, _, _)
findBest_firstFound(pool, i, visitedSlots, currentLocation, currentMinutes, best) ==
    IF i > Len(pool) THEN best
    ELSE
        LET candidate == pool[i]
            next(b) == findBest_firstFound(pool, i + 1, visitedSlots, currentLocation,
                                currentMinutes, b)
        IN  IF NoCoordinates(candidate.property) THEN next(best)
            ELSE IF candidate.slot.id \in visitedSlots THEN next(best)
            ELSE
                LET distance == SS_calculateDistance(
                        currentLocation.lat, currentLocation.lng,
                        Val(candidate.property.latitude),
                        Val(candidate.property.longitude))
                    earliestNextStart == currentMinutes + SS_calculateTravelTime(distance)
                IN  IF timeToMinutes(candidate.slot.startTime) < earliestNextStart
                    THEN next(best)
                    ELSE IF best.index = 0
                    THEN next([index |-> i, distance |-> distance])
                    ELSE next(best)

\* The scan of the pool: the nearest candidate that can be reached in time,
\* [index |-> 0] when there is none.
RECURSIVE findBest(_, _, _, _, _, _)
findBest(pool, i, visitedSlots, currentLocation, currentMinutes, best) ==
    IF i > Len(pool) THEN best
    ELSE
        LET candidate == pool[i]
            next(b) == findBest(pool, i + 1, visitedSlots, currentLocation,
                                currentMinutes, b)
        IN  IF NoCoordinates(candidate.property) THEN next(best)
            ELSE IF candidate.slot.id \in visitedSlots THEN next(best)
            ELSE
                LET distance == SS_calculateDistance(
                        currentLocation.lat, currentLocation.lng,
                        Val(candidate.property.latitude),
                        Val(candidate.property.longitude))
                    earliestNextStart == currentMinutes + SS_calculateTravelTime(distance)
                IN  IF timeToMinutes(candidate.slot.startTime) < earliestNextStart
                    THEN next(best)
                    ELSE IF best.index = 0 \/ distance < best.distance
                    THEN next([index |-> i, distance |-> distance])
                    ELSE next(best)

\* Step 4: the selection loop; returns the chosen candidates in order, each with
\* the distance travelled to it.
RECURSIVE scheduleLoop(_, _, _, _, _)
scheduleLoop(pool, visitedSlots, currentLocation, currentMinutes, chosen) ==
    IF pool = <<>> THEN chosen
    ELSE
        LET best == findBest(pool, 1, visitedSlots, currentLocation, currentMinutes,
                             [index |-> 0, distance |-> 0])
        IN  IF best.index = 0 THEN chosen
            ELSE
                LET bestCandidate == pool[best.index]
                IN scheduleLoop(
                     SubSeq(pool, 1, best.index - 1)
                        \o SubSeq(pool, best.index + 1, Len(pool)),
                     visitedSlots \cup {bestCandidate.slot.id},
                     [lat |-> Val(bestCandidate.property.latitude),
                      lng |-> Val(bestCandidate.property.longitude)],
                     timeToMinutes(bestCandidate.slot.endTime),
                     Append(chosen, [candidate |-> bestCandidate,
                                     distance |-> best.distance]))

RECURSIVE SumSeq(_)
SumSeq(s) == IF s = <<>> THEN 0 ELSE Head(s) + SumSeq(Tail(s))

\* Steps 1 to 4: the candidates chosen by one run, in the order they are booked.
smartSchedule(agentId, date, startingLocation, startTime) ==
    IF Len(availableClients(agentId, date)) = 0 THEN <<>>
    ELSE LET candidates == scheduleCandidates(agentId, date)
         IN IF Len(candidates) = 0 THEN <<>>
            ELSE scheduleLoop(selectedCandidates(ArraySort(candidates,
                                [a, b \in 1..Len(candidates) |->
                                    compareCandidates(candidates[a], candidates[b])])),
                              {}, startingLocation, timeToMinutes(startTime), <<>>)

\* storage.createAppointment for every chosen candidate.
smartAppointments(agentId, date, chosen) ==
    [k \in 1..Len(chosen) |->
        [newAppointment(agentId, chosen[k].candidate.property.id,
                        chosen[k].candidate.client.id,
                        setHours(date, chosen[k].candidate.slot.startTime),
                        slotDuration(chosen[k].candidate.slot),
                        None, chosen[k].candidate.slot.id)
            EXCEPT !.id = Len(appointments) + k]]

\* storage.updateShowingSlot(slot.id, { isBooked: 'true', bookedBy: client.id })
bookSlots(chosen) ==
    [n \in 1..Len(showingSlots) |->
        IF \E k \in 1..Len(chosen) : chosen[k].candidate.slot.id = showingSlots[n].id
        THEN LET k == CHOOSE k \in 1..Len(chosen) :
                        chosen[k].candidate.slot.id = showingSlots[n].id
             IN [showingSlots[n] EXCEPT !.isBooked = "true",
                                        !.bookedBy = Some(chosen[k].candidate.client.id)]
        ELSE showingSlots[n]]

generateSmartSchedule(agentId, date, startingLocation, startTime) ==
    /\ pc = "idle"
    /\ call' = [op |-> "generateSmartSchedule", id |-> 0,
                 agentId |-> agentId, date |-> date]
    /\ \E chosen \in {smartSchedule(agentId, date, startingLocation, startTime)} :
       \E created \in {smartAppointments(agentId, date, chosen)} :
          /\ appointments' = appointments \o created
          /\ showingSlots' = bookSlots(chosen)
          /\ result' = [error |-> "",
                        created |-> [k \in 1..Len(created) |-> created[k].id],
                        totalDistance |-> SumSeq([k \in 1..Len(chosen) |->
                                                    chosen[k].distance]),
                        totalTravelTime |-> SumSeq([k \in 1..Len(chosen) |->
                                            SS_calculateTravelTime(chosen[k].distance)]),
                        clientsScheduled |-> Cardinality({created[k].clientId :
                                                            k \in 1..Len(created)}),
                        propertiesVisited |-> Cardinality({created[k].propertyId :
                                                            k \in 1..Len(created)})]
    /\ UNCHANGED <<clients, properties, propertyPreferences, bookingRequests, pc, frame>>

----------------------------------------------------------------------------
(* generateSmartSchedule, two calls in progress at once: pc[r] is the        *)
(* position of call r, frame.runs[r] its locals, and frame.interleaved tells *)
(* whether a call has taken a step while the other one was between its first *)
(* and its last step. The reads of steps 1 and 2 are one step; every         *)
(* createAppointment and every updateShowingSlot is a step of its own.       *)

Runs == {1, 2}

otherRun(r) == 3 - r

inProgress(r) == pc[r] = "select" \/ pc[r] = "update"

\* The locals of a call that has not started.
noLocals ==
    [agentId |-> "", date |-> [day |-> 0, min |-> 0], selectedCandidates |-> <<>>,
     visitedSlots |-> {}, currentLocation |-> [lat |-> 0, lng |-> 0],
     currentMinutes |-> 0, scheduledAppointments |-> <<>>,
     bestCandidateIndex |-> 0, shortestDistance |-> 0, appointment |-> 0]

\* Steps 1 to 3 and the reduction to one candidate per pair: all reads of the
\* store a call makes.
scheduleCollect(r, agentId, date, startingLocation, startTime) ==
    /\ pc[r] = "start"
    /\ LET candidates == IF Len(availableClients(agentId, date)) = 0 THEN <<>>
                         ELSE scheduleCandidates(agentId, date)
           pool == selectedCandidates(ArraySort(candidates,
                        [a, b \in 1..Len(candidates) |->
                            compareCandidates(candidates[a], candidates[b])]))
       IN /\ frame' = [runs |-> [frame.runs EXCEPT ![r] =
                            [noLocals EXCEPT !.agentId = agentId,
                                             !.date = date,
                                             !.selectedCandidates = pool,
                                             !.currentLocation = startingLocation,
                                             !.currentMinutes = timeToMinutes(startTime)]],
                       interleaved |-> frame.interleaved \/ inProgress(otherRun(r))]
          /\ pc' = [pc EXCEPT ![r] = IF Len(candidates) = 0 THEN "done" ELSE "select"]
          /\ result' = IF Len(candidates) = 0
                       THEN [error |-> "", created |-> <<>>] ELSE result
    /\ call' = [op |-> "generateSmartSchedule", id |-> r]
    /\ UNCHANGED <<clients, properties, propertyPreferences, showingSlots,
                   appointments, bookingRequests>>

\* One scan of the pool, then storage.createAppointment for the best candidate
\* or the end of the call when there is none.
scheduleCreateAppointment(r) ==
    /\ pc[r] = "select"
    /\ LET locals == frame.runs[r]
           best == IF locals.selectedCandidates = <<>> THEN [index |-> 0, distance |-> 0]
                   ELSE findBest(locals.selectedCandidates, 1, locals.visitedSlots,
                                 locals.currentLocation, locals.currentMinutes,
                                 [index |-> 0, distance |-> 0])
       IN IF best.index = 0
          THEN /\ pc' = [pc EXCEPT ![r] = "done"]
               /\ frame' = [frame EXCEPT
                                !.interleaved = @ \/ inProgress(otherRun(r))]
               /\ result' = [error |-> "", created |-> locals.scheduledAppointments]
               /\ UNCHANGED appointments
          ELSE LET bestCandidate == locals.selectedCandidates[best.index]
               IN /\ appointments' = Append(appointments,
                        newAppointment(locals.agentId, bestCandidate.property.id,
                                       bestCandidate.client.id,
                                       setHours(locals.date, bestCandidate.slot.startTime),
                                       slotDuration(bestCandidate.slot),
                                       None, bestCandidate.slot.id))
                  /\ frame' = [runs |-> [frame.runs EXCEPT ![r] =
                                    [locals EXCEPT !.bestCandidateIndex = best.index,
                                                   !.shortestDistance = best.distance,
                                                   !.appointment = Len(appointments) + 1]],
                               interleaved |-> frame.interleaved
                                                \/ inProgress(otherRun(r))]
                  /\ pc' = [pc EXCEPT ![r] = "update"]
                  /\ UNCHANGED result
    /\ call' = [op |-> "generateSmartSchedule", id |-> r]
    /\ UNCHANGED <<clients, properties, propertyPreferences, showingSlots,
                   bookingRequests>>

\* The end of an iteration without the splice: the scheduled candidate stays in
\* the pool.
scheduleUpdateShowingSlot_noSplice(r) ==
    /\ pc[r] = "update"
    /\ LET locals == frame.runs[r]
           bestCandidate == locals.selectedCandidates[locals.bestCandidateIndex]
       IN /\ showingSlots' = [n \in 1..Len(showingSlots) |->
                IF showingSlots[n].id = bestCandidate.slot.id
                THEN [showingSlots[n] EXCEPT !.isBooked = "true",
                                             !.bookedBy = Some(bestCandidate.client.id)]
                ELSE showingSlots[n]]
          /\ frame' = [runs |-> [frame.runs EXCEPT ![r] =
                [locals EXCEPT
                    !.scheduledAppointments = Append(@, locals.appointment),
                    !.visitedSlots = @ \cup {bestCandidate.slot.id},
                    !.currentLocation = [lat |-> Val(bestCandidate.property.latitude),
                                         lng |-> Val(bestCandidate.property.longitude)],
                    !.currentMinutes = timeToMinutes(bestCandidate.slot.endTime)]],
                      interleaved |-> frame.interleaved \/ inProgress(otherRun(r))]
          /\ pc' = [pc EXCEPT ![r] = "select"]
    /\ call' = [op |-> "generateSmartSchedule", id |-> r]
    /\ UNCHANGED <<clients, properties, propertyPreferences, appointments,
                   bookingRequests, result>>

\* storage.updateShowingSlot for the candidate just scheduled, then the updates
\* of the locals up to the splice.
scheduleUpdateShowingSlot(r) ==
    /\ pc[r] = "update"
    /\ LET locals == frame.runs[r]
           bestCandidate == locals.selectedCandidates[locals.bestCandidateIndex]
       IN /\ showingSlots' = [n \in 1..Len(showingSlots) |->
                IF showingSlots[n].id = bestCandidate.slot.id
                THEN [showingSlots[n] EXCEPT !.isBooked = "true",
                                             !.bookedBy = Some(bestCandidate.client.id)]
                ELSE showingSlots[n]]
          /\ frame' = [runs |-> [frame.runs EXCEPT ![r] =
                [locals EXCEPT
                    !.scheduledAppointments = Append(@, locals.appointment),
                    !.visitedSlots = @ \cup {bestCandidate.slot.id},
                    !.currentLocation = [lat |-> Val(bestCandidate.property.latitude),
                                         lng |-> Val(bestCandidate.property.longitude)],
                    !.currentMinutes = timeToMinutes(bestCandidate.slot.endTime),
                    !.selectedCandidates =
                        SubSeq(@, 1, locals.bestCandidateIndex - 1)
                            \o SubSeq(@, locals.bestCandidateIndex + 1, Len(@))]],
                      interleaved |-> frame.interleaved \/ inProgress(otherRun(r))]
          /\ pc' = [pc EXCEPT ![r] = "select"]
    /\ call' = [op |-> "generateSmartSchedule", id |-> r]
    /\ UNCHANGED <<clients, properties, propertyPreferences, appointments,
                   bookingRequests, result>>

----------------------------------------------------------------------------
(* generateBookingRequests, two calls in progress at once: pc[r] is the      *)
(* position of call r and frame.runs[r] its locals. Steps 1 to 4 (all reads  *)
(* of the store, then the forward pass) are one step; every                  *)
(* createBookingRequest is a step of its own.                                *)

creating(r) == pc[r] = "create"

\* The locals of a call that has not started.
noBookings == [agentId |-> "", selectedBookings |-> <<>>, bookingRequests |-> <<>>]

generateCollect(r, agentId, date, clientIds, startLocation, startTime, endTime) ==
    /\ pc[r] = "start"
    /\ call' = [op |-> "generateBookingRequests", id |-> r]
    /\ LET vc == validClients(clientIds)
       IN IF Len(vc) = 0
          THEN /\ result' = [error |-> "No valid clients found", created |-> <<>>]
               /\ pc' = [pc EXCEPT ![r] = "done"]
               /\ frame' = [frame EXCEPT !.interleaved = @ \/ creating(otherRun(r))]
          ELSE LET selected == selectBookings(slotCandidates(agentId, date, vc),
                                   timeToMinutes(startTime), timeToMinutes(endTime),
                                   timeToMinutes(startTime), startLocation, {}, <<>>)
               IN /\ frame' = [runs |-> [frame.runs EXCEPT ![r] =
                                    [agentId |-> agentId, selectedBookings |-> selected,
                                     bookingRequests |-> <<>>]],
                               interleaved |-> frame.interleaved
                                                \/ creating(otherRun(r))]
                  /\ pc' = [pc EXCEPT ![r] = IF selected = <<>> THEN "done"
                                             ELSE "create"]
                  /\ result' = IF selected = <<>>
                               THEN [error |-> "", created |-> <<>>] ELSE result
    /\ UNCHANGED <<clients, properties, propertyPreferences, showingSlots,
                   appointments, bookingRequests>>

\* One iteration of step 5: storage.createBookingRequest for the next selected
\* booking; after the last one the call returns the requests it created.
generateCreateBookingRequest(r) ==
    /\ pc[r] = "create"
    /\ call' = [op |-> "generateBookingRequests", id |-> r]
    /\ LET locals == frame.runs[r]
           request == newBookingRequests(locals.agentId,
                                         <<Head(locals.selectedBookings)>>)[1]
           created == Append(locals.bookingRequests, request.id)
       IN /\ bookingRequests' = Append(bookingRequests, request)
          /\ frame' = [runs |-> [frame.runs EXCEPT ![r] =
                            [locals EXCEPT !.selectedBookings = Tail(@),
                                           !.bookingRequests = created]],
                       interleaved |-> frame.interleaved \/ creating(otherRun(r))]
          /\ pc' = [pc EXCEPT ![r] = IF Tail(locals.selectedBookings) = <<>>
                                     THEN "done" ELSE "create"]
          /\ result' = IF Tail(locals.selectedBookings) = <<>>
                       THEN [error |-> "", created |-> created] ELSE result
    /\ UNCHANGED <<clients, properties, propertyPreferences, showingSlots,
                   appointments>>

----------------------------------------------------------------------------
(* distance.ts and routeOptimizer.ts *)

DI_R10 == 39588       \* Earth's radius, 3958.8 miles, in tenths of a mile

\* Haversine on one meridian: R * |lat2 - lat1| * PI / 180, in millimiles.
DI_calculateDistance(lat1, lon1, lat2, lon2) ==
    (Abs(lat2 - lat1) * ((DI_R10 * 31416) \div 18000)) \div 1000

DI_avgSpeedMph == 25

\* The estimate with the buffer but without the floor of 5 minutes.
estimateTravelTime_noFloor(distanceInMiles) ==
    CeilDiv(distanceInMiles * 60, DI_avgSpeedMph * 1000) + 2

\* Math.max(Math.ceil(distanceInMiles / avgSpeedMph * 60) + 2, 5)
estimateTravelTime(distanceInMiles) ==
    LET timeInMinutes == CeilDiv(distanceInMiles * 60, DI_avgSpeedMph * 1000)
    IN IF timeInMinutes + 2 > 5 THEN timeInMinutes + 2 ELSE 5

\* MemStorage.getAppointmentsByDate: the agent's appointments of the day.
getAppointmentsByDate(agentId, date) ==
    SelectSeq(appointments, LAMBDA a : a.agentId = agentId /\ a.scheduledDate.day = date.day)

\* properties.get(id) on the Map the route builds from storage.getProperty.
propertiesGet(props, id) ==
    LET found == SelectSeq(props, LAMBDA q : q.id = id)
    IN IF found = <<>> THEN None ELSE Some(found[1])

\* The appointments whose property is in the map, paired with it, in input order.
appointmentsWithProps(apps, props) ==
    LET known == SelectSeq(apps, LAMBDA a : IsSome(propertiesGet(props, a.propertyId)))
    IN [k \in 1..Len(known) |->
            [appointment |-> known[k],
             property |-> Val(propertiesGet(props, known[k].propertyId))]]

\* item.property.latitude && item.property.longitude
validItems(items) ==
    SelectSeq(items, LAMBDA item : IsSome(item.property.latitude)
                                   /\ IsSome(item.property.longitude))

RouteStop(item, distanceFromPrevious, estimatedTravelTime) ==
    [appointment |-> item.appointment, property |-> item.property,
     distanceFromPrevious |-> distanceFromPrevious,
     estimatedTravelTime |-> estimatedTravelTime]

itemDistance(a, b) ==
    DI_calculateDistance(Val(a.property.latitude), Val(a.property.longitude),
                         Val(b.property.latitude), Val(b.property.longitude))

\* The inner scan keeping the last of equally near candidates.
RECURSIVE scanNearest_lastNearest(_, _, _, _, _)
scanNearest_lastNearest(current, unvisited, i, nearestIndex, minDistance) ==
    IF i > Len(unvisited) THEN nearestIndex
    ELSE LET distance == itemDistance(current, unvisited[i])
         IN IF ~IsSome(minDistance) \/ distance <= Val(minDistance)
            THEN scanNearest_lastNearest(current, unvisited, i + 1, i, Some(distance))
            ELSE scanNearest_lastNearest(current, unvisited, i + 1, nearestIndex,
                                         minDistance)

\* The inner scan of nearestNeighbor: minDistance starts at Infinity (None) and
\* nearestIndex at the first index; a candidate replaces the best only when
\* strictly nearer.
RECURSIVE scanNearest(_, _, _, _, _)
scanNearest(current, unvisited, i, nearestIndex, minDistance) ==
    IF i > Len(unvisited) THEN nearestIndex
    ELSE LET distance == itemDistance(current, unvisited[i])
         IN IF ~IsSome(minDistance) \/ distance < Val(minDistance)
            THEN scanNearest(current, unvisited, i + 1, i, Some(distance))
            ELSE scanNearest(current, unvisited, i + 1, nearestIndex, minDistance)

\* The while loop of nearestNeighbor.
RECURSIVE visitNearest(_, _, _)
visitNearest(current, unvisited, route) ==
    IF Len(unvisited) = 0 THEN route
    ELSE LET nearestIndex == scanNearest(current, unvisited, 1, 1, None)
         IN visitNearest(unvisited[nearestIndex],
                         SubSeq(unvisited, 1, nearestIndex - 1)
                            \o SubSeq(unvisited, nearestIndex + 1, Len(unvisited)),
                         Append(route, unvisited[nearestIndex]))

\* The items in the order given.
nearestNeighbor_inputOrder(items) == items

nearestNeighbor(items) ==
    IF Len(items) <= 1 THEN items
    ELSE visitNearest(Head(items), Tail(items), <<Head(items)>>)

\* The fallback schedule flagged as optimized.
unoptimizedSchedule_flagged(items) ==
    [stops |-> [k \in 1..Len(items) |-> RouteStop(items[k], None, None)],
     totalDistance |-> 0, totalTravelTime |-> 0, optimized |-> TRUE]

\* The schedule returned when no item has coordinates: the input order.
unoptimizedSchedule(items) ==
    [stops |-> [k \in 1..Len(items) |-> RouteStop(items[k], None, None)],
     totalDistance |-> 0, totalTravelTime |-> 0, optimized |-> FALSE]

\* The stops of an ordered route with the distance and travel time of each leg.
routeStops(optimizedOrder) ==
    [i \in 1..Len(optimizedOrder) |->
        IF i > 1
        THEN LET distanceFromPrevious ==
                    itemDistance(optimizedOrder[i - 1], optimizedOrder[i])
             IN RouteStop(optimizedOrder[i], Some(distanceFromPrevious),
                          Some(estimateTravelTime(distanceFromPrevious)))
        ELSE RouteStop(optimizedOrder[i], None, None)]

\* The schedule of the nearest-neighbour route over the items with coordinates.
optimizedSchedule(valid) ==
    LET stops == routeStops(nearestNeighbor(valid))
    IN [stops |-> stops,
        totalDistance |-> SumSeq([i \in 1..(Len(stops) - 1) |->
                                    Val(stops[i + 1].distanceFromPrevious)]),
        totalTravelTime |-> SumSeq([i \in 1..(Len(stops) - 1) |->
                                    Val(stops[i + 1].estimatedTravelTime)]),
        optimized |-> TRUE]

\* optimizeRoute without the early returns for zero and one appointment.
optimizeRoute_noShortcut(apps, props) ==
    LET items == appointmentsWithProps(apps, props)
    IN IF Len(validItems(items)) = 0 THEN unoptimizedSchedule(items)
       ELSE optimizedSchedule(validItems(items))

\* optimizeRoute falling back to the input order as soon as one item lacks a
\* coordinate.
optimizeRoute_allOrNothing(apps, props) ==
    LET items == appointmentsWithProps(apps, props)
    IN IF Len(items) = 0
       THEN [stops |-> <<>>, totalDistance |-> 0, totalTravelTime |-> 0,
             optimized |-> TRUE]
       ELSE IF Len(items) = 1
       THEN [stops |-> <<RouteStop(items[1], None, None)>>,
             totalDistance |-> 0, totalTravelTime |-> 0, optimized |-> TRUE]
       ELSE IF Len(validItems(items)) < Len(items) THEN unoptimizedSchedule(items)
       ELSE optimizedSchedule(validItems(items))

optimizeRoute(apps, props) ==
    LET items == appointmentsWithProps(apps, props)
    IN IF Len(items) = 0
       THEN [stops |-> <<>>, totalDistance |-> 0, totalTravelTime |-> 0,
             optimized |-> TRUE]
       ELSE IF Len(items) = 1
       THEN [stops |-> <<RouteStop(items[1], None, None)>>,
             totalDistance |-> 0, totalTravelTime |-> 0, optimized |-> TRUE]
       ELSE IF Len(validItems(items)) = 0 THEN unoptimizedSchedule(items)
       ELSE optimizedSchedule(validItems(items))

\* POST /api/optimize-route: the agent's appointments of the date, the map of
\* their stored properties, and the schedule optimizeRoute returns.
optimizeRouteRoute(agentId, date) ==
    /\ pc = "idle"
    /\ call' = [op |-> "optimizeRoute", id |-> 0]
    /\ \E apps \in {getAppointmentsByDate(agentId, date)} :
        \E props \in {SelectSeq(properties, LAMBDA q :
                            \E k \in 1..Len(apps) : apps[k].propertyId = q.id)} :
            result' = optimizeRoute(apps, props)
    /\ UNCHANGED <<clients, properties, propertyPreferences, showingSlots,
                   appointments, bookingRequests, pc, frame>>

----------------------------------------------------------------------------
(* The stored world and the arguments the operations are called with *)

Agents == {"a1", "a2"}

Saturday == [day |-> 6, min |-> 0]
Sunday == [day |-> 7, min |-> 0]
InputDates == {Saturday, Sunday}

InitClients ==
    << [id |-> "c1", agentId |-> "a1", preferredDays |-> {"Saturday"},
        preferredTimeSlots |-> {"morning", "afternoon"}],
       [id |-> "c2", agentId |-> "a1", preferredDays |-> {"Saturday", "Sunday"},
        preferredTimeSlots |-> {"morning"}],
       [id |-> "c3", agentId |-> "a2", preferredDays |-> {"Sunday"},
        preferredTimeSlots |-> {"morning"}] >>

InitProperties ==
    << [id |-> "p1", latitude |-> Some(0), longitude |-> Some(0)],
       [id |-> "p2", latitude |-> Some(50), longitude |-> Some(0)],
       [id |-> "p3", latitude |-> None, longitude |-> None] >>

Pref(c, p, prio) == [clientId |-> c, propertyId |-> p, priority |-> prio]

\* c1 holds two preferences for p2.
InitPreferences ==
    << Pref("c1", "p1", 1), Pref("c1", "p2", 2), Pref("c2", "p1", 1),
       Pref("c2", "p3", 1), Pref("c1", "p2", 1), Pref("c3", "p2", 1) >>

Slot(id, p, date, st, en, cap) ==
    [id |-> id, propertyId |-> p, date |-> date, startTime |-> st, endTime |-> en,
     isBooked |-> "false", bookedBy |-> None, maxCapacity |-> cap]

InitSlots ==
    << Slot("s1", "p1", Saturday, Time(9, 0), Time(10, 0), 1),
       Slot("s2", "p1", [day |-> 6, min |-> 600], Time(11, 0), Time(11, 45), 2),
       Slot("s3", "p2", Saturday, Time(9, 0), Time(10, 0), 10),
       Slot("s4", "p3", Saturday, Time(9, 0), Time(10, 0), 10) >>

\* The store after generateSmartSchedule("a1", Saturday, p1's location, "08:00")
\* has run once on the store above: s1 is booked by c1.
ScheduledSlots ==
    [InitSlots EXCEPT ![1] = [@ EXCEPT !.isBooked = "true", !.bookedBy = Some("c1")]]

ScheduledAppointments ==
    << [id |-> 1, agentId |-> "a1", propertyId |-> "p1", clientId |-> "c1",
        scheduledDate |-> [day |-> 6, min |-> 540], duration |-> 60,
        status |-> "scheduled", bookingRequestId |-> None, slotId |-> "s1"] >>

ClientIdLists == {<<>>, <<"cx">>, <<"c1">>, <<"c1", "c2">>}
StartLocations == {[lat |-> 0, lng |-> 0], [lat |-> 50, lng |-> 0]}
Reasons == {None, Some("busy")}
SelectedPropertyLists == {<<>>, <<"p1">>, <<"p2">>}

\* The store as seeded: no slot booked, nothing scheduled or requested.
InitFresh ==
    /\ clients = InitClients
    /\ properties = InitProperties
    /\ propertyPreferences = InitPreferences
    /\ showingSlots = InitSlots
    /\ appointments = <<>>
    /\ bookingRequests = <<>>
    /\ pc = "idle"
    /\ frame = None
    /\ call = [op |-> "none", id |-> 0]
    /\ result = [error |-> "", created |-> <<>>]

\* The seeded store, or the store one scheduler run has left.
Init ==
    /\ clients = InitClients
    /\ properties = InitProperties
    /\ propertyPreferences = InitPreferences
    /\ \/ showingSlots = InitSlots /\ appointments = <<>>
       \/ showingSlots = ScheduledSlots /\ appointments = ScheduledAppointments
    /\ bookingRequests = <<>>
    /\ pc = "idle"
    /\ frame = None
    /\ call = [op |-> "none", id |-> 0]
    /\ result = [error |-> "", created |-> <<>>]

GenerateBookingRequests ==
    \E date \in InputDates, clientIds \in ClientIdLists,
       startLocation \in StartLocations :
        generateBookingRequests("a1", date, clientIds, startLocation,
                                Time(9, 0), Time(17, 0))

ConfirmBegin == \E requestId \in 1..(Len(bookingRequests) + 1) : confirmBegin(requestId)

RejectBookingRequest ==
    \E requestId \in 1..(Len(bookingRequests) + 1), reason \in Reasons :
        rejectBookingRequest(requestId, reason)

\* POST /api/smart-schedule: generateSmartSchedule(agentId, new Date(date),
\* startLocation, "08:00", selectedProperties || []); the function declares
\* four parameters, so the fifth argument is not read by it.
smartScheduleRoute(agentId, date, startingLocation, selectedProperties) ==
    generateSmartSchedule(agentId, date, startingLocation, Time(8, 0))

GenerateSmartSchedule ==
    \E agentId \in Agents, date \in InputDates, startingLocation \in StartLocations,
       selectedProperties \in SelectedPropertyLists :
        smartScheduleRoute(agentId, date, startingLocation, selectedProperties)

\* The orchestration of one client from the first start location, as the
\* scheduler's runs meet it.
GenerateForClient ==
    generateBookingRequests("a1", Saturday, <<"c1">>, [lat |-> 0, lng |-> 0],
                            Time(9, 0), Time(17, 0))

\* The booking orchestrator: any sequence of generate, confirm and reject calls,
\* one at a time, on a store the scheduler may have run on before.
Next ==
    \/ GenerateBookingRequests
    \/ ConfirmBegin
    \/ confirmCreateAppointment
    \/ confirmUpdateRequest
    \/ RejectBookingRequest

Spec == Init /\ [][Next]_vars

\* The scheduler: any sequence of generateSmartSchedule runs, one at a time,
\* among booking requests being generated and confirmed.
NextSched ==
    \/ GenerateSmartSchedule
    \/ GenerateForClient
    \/ ConfirmBegin
    \/ confirmCreateAppointment
    \/ confirmUpdateRequest

SpecSched == InitFresh /\ [][NextSched]_vars

\* The three travel-time estimators applied to the leg distance held in frame:
\* distance.ts estimateTravelTime (miles), smartScheduler.ts calculateTravelTime
\* (miles) and bookingOrchestrator.ts calculateTravelTime (kilometres).
travelTimes ==
    /\ pc = "idle"
    /\ IsSome(frame)
    /\ call' = [op |-> "travelTimes", id |-> Val(frame).distance]
    /\ result' = [route |-> estimateTravelTime(Val(frame).distance),
                  scheduler |-> SS_calculateTravelTime(Val(frame).distance),
                  orchestrator |-> BO_calculateTravelTime(Val(frame).distance)]
    /\ UNCHANGED <<clients, properties, propertyPreferences, showingSlots,
                   appointments, bookingRequests, pc, frame>>

\* optimizeRoute called again with the appointments of the schedule it has just
\* returned, in the order of the returned stops, and the same property map;
\* frame keeps the schedule returned before.
optimizeRouteAgain ==
    /\ pc = "idle"
    /\ call.op = "optimizeRoute" \/ call.op = "optimizeRouteAgain"
    /\ call' = [op |-> "optimizeRouteAgain", id |-> 0]
    /\ frame' = Some(result)
    /\ \E apps \in {[k \in 1..Len(result.stops) |-> result.stops[k].appointment]} :
        \E props \in {SelectSeq(properties, LAMBDA q :
                            \E k \in 1..Len(apps) : apps[k].propertyId = q.id)} :
            result' = optimizeRoute(apps, props)
    /\ UNCHANGED <<clients, properties, propertyPreferences, showingSlots,
                   appointments, bookingRequests, pc>>

\* Properties on one meridian: pB 10 miles north of pA, pC 30 miles north, pE 10
\* miles south; pD has a latitude only and pN no coordinates.
RouteProperties ==
    << [id |-> "pA", latitude |-> Some(0), longitude |-> Some(0)],
       [id |-> "pB", latitude |-> Some(145), longitude |-> Some(0)],
       [id |-> "pC", latitude |-> Some(434), longitude |-> Some(0)],
       [id |-> "pE", latitude |-> Some(0 - 145), longitude |-> Some(0)],
       [id |-> "pD", latitude |-> Some(10), longitude |-> None],
       [id |-> "pN", latitude |-> None, longitude |-> None] >>

\* The property ids appointments refer to; no property px is stored.
RoutePropertyIds == {"pA", "pB", "pC", "pE", "pD", "pN", "px"}

\* The stored appointments of a1 on Saturday for the given properties, one an hour.
RouteAppointments(propertyIds) ==
    [i \in 1..Len(propertyIds) |->
        [id |-> i, agentId |-> "a1", propertyId |-> propertyIds[i], clientId |-> "c1",
         scheduledDate |-> [day |-> 6, min |-> 480 + 60 * i], duration |-> 60,
         status |-> "scheduled", bookingRequestId |-> None, slotId |-> "none"]]

\* A store holding up to MaxStops appointments of the day.
InitRoute ==
    /\ clients = InitClients
    /\ properties = RouteProperties
    /\ propertyPreferences = <<>>
    /\ showingSlots = <<>>
    /\ \E n \in 0..MaxStops :
        \E propertyIds \in [1..n -> RoutePropertyIds] :
            appointments = RouteAppointments(propertyIds)
    /\ bookingRequests = <<>>
    /\ pc = "idle"
    /\ frame = None
    /\ call = [op |-> "none", id |-> 0]
    /\ result = [error |-> "", created |-> <<>>]

OptimizeRoute == optimizeRouteRoute("a1", Saturday)

\* The route optimizer applied to the appointments of the day.
NextRoute == OptimizeRoute

SpecRoute == InitRoute /\ [][NextRoute]_vars

OptimizeRouteAgain == optimizeRouteAgain

\* The route optimizer applied to the appointments of the day and then to its
\* own output.
NextAgain ==
    \/ OptimizeRoute
    \/ OptimizeRouteAgain

SpecAgain == InitRoute /\ [][NextAgain]_vars

\* Legs of the route optimizer: pF lies 0.69 miles north of pA and pB 10 miles
\* north of it; two appointments may be at the same property. The leg distance
\* handed to the estimators on their own is drawn into frame.
LegProperties ==
    << [id |-> "pA", latitude |-> Some(0), longitude |-> Some(0)],
       [id |-> "pF", latitude |-> Some(10), longitude |-> Some(0)],
       [id |-> "pB", latitude |-> Some(145), longitude |-> Some(0)] >>

InitLeg ==
    /\ clients = InitClients
    /\ properties = LegProperties
    /\ propertyPreferences = <<>>
    /\ showingSlots = <<>>
    /\ \E n \in 0..MaxStops :
        \E propertyIds \in [1..n -> {"pA", "pF", "pB"}] :
            appointments = RouteAppointments(propertyIds)
    /\ bookingRequests = <<>>
    /\ pc = "idle"
    /\ \E distance \in 0..MaxLeg : frame = Some([distance |-> distance])
    /\ call = [op |-> "none", id |-> 0]
    /\ result = [error |-> "", created |-> <<>>]

TravelTimes == travelTimes

NextLeg ==
    \/ OptimizeRoute
    \/ TravelTimes

SpecLeg == InitLeg /\ [][NextLeg]_vars

\* The orchestration of c1 and c2 together from the first start location.
GenerateForPair ==
    generateBookingRequests("a1", Saturday, <<"c1", "c2">>, [lat |-> 0, lng |-> 0],
                            Time(9, 0), Time(17, 0))

DeleteClient == \E id \in {"c1", "c2"} : deleteClient(id)

DeleteShowingSlot == \E id \in {"s2", "s3"} : deleteShowingSlot(id)

\* The booking orchestrator on a store whose clients and slots may be deleted
\* between the calls.
NextStore ==
    \/ GenerateForPair
    \/ DeleteClient
    \/ DeleteShowingSlot
    \/ ConfirmBegin
    \/ confirmCreateAppointment
    \/ confirmUpdateRequest
    \/ RejectBookingRequest

SpecStore == InitFresh /\ [][NextStore]_vars

\* The orchestration run for either agent; the clientIds of the request body
\* are not compared with the agent.
GenerateForAgent ==
    \E agentId \in Agents, clientIds \in {<<"c1">>, <<"c3">>, <<"c1", "c2">>},
       startLocation \in StartLocations :
        generateBookingRequests(agentId, Saturday, clientIds, startLocation,
                                Time(9, 0), Time(17, 0))

\* The booking orchestrator used by two agents, one call at a time.
NextAgents ==
    \/ GenerateForAgent
    \/ ConfirmBegin
    \/ confirmCreateAppointment
    \/ confirmUpdateRequest
    \/ RejectBookingRequest

SpecAgents == InitFresh /\ [][NextAgents]_vars

\* The booking orchestrator on a store whose createAppointment may reject.
NextFail ==
    \/ GenerateForPair
    \/ ConfirmBegin
    \/ confirmCreateAppointment
    \/ confirmCreateAppointmentFails
    \/ confirmUpdateRequest
    \/ RejectBookingRequest

SpecFail == InitFresh /\ [][NextFail]_vars

----------------------------------------------------------------------------
(* The forward pass on its own: one client of agent a1 who wants q1, q2 and  *)
(* q3; q2 lies at q1's location or 50 or 1000 millidegrees north of it (0, 7 *)
(* or 122 minutes away), q3 has no coordinates; the slot on q2 starts at a   *)
(* drawn time.                                                               *)

PassLatitudes == {0, 50, 1000}
PassFirstEnds == {Time(9, 30), Time(10, 0)}
PassSecondStarts ==
    {Time(9, 10), Time(9, 36), Time(9, 37), Time(10, 6), Time(10, 7), Time(12, 1), Time(12, 2)}
PassWindows == {[startTime |-> Time(9, 0), endTime |-> Time(17, 0)],
                [startTime |-> Time(8, 0), endTime |-> Time(12, 0)]}

PassClients ==
    << [id |-> "c1", agentId |-> "a1", preferredDays |-> {"Saturday"},
        preferredTimeSlots |-> {"morning", "afternoon"}] >>

PassProperties(lat) ==
    << [id |-> "q1", latitude |-> Some(0), longitude |-> Some(0)],
       [id |-> "q2", latitude |-> Some(lat), longitude |-> Some(0)],
       [id |-> "q3", latitude |-> None, longitude |-> None] >>

PassPreferences == << Pref("c1", "q1", 1), Pref("c1", "q2", 1), Pref("c1", "q3", 1) >>

PassSlots(firstEnd, secondStart) ==
    << Slot("t1", "q1", Saturday, Time(9, 0), firstEnd, 10),
       Slot("t2", "q2", Saturday, secondStart, Time(secondStart.h, secondStart.m + 20), 10),
       Slot("t3", "q1", Saturday, Time(13, 0), Time(13, 30), 10),
       Slot("t4", "q3", Saturday, Time(11, 0), Time(11, 30), 10),
       Slot("t5", "q2", Saturday, Time(15, 0), Time(15, 30), 10) >>

InitPass ==
    /\ clients = PassClients
    /\ \E lat \in PassLatitudes : properties = PassProperties(lat)
    /\ propertyPreferences = PassPreferences
    /\ \E firstEnd \in PassFirstEnds, secondStart \in PassSecondStarts :
            showingSlots = PassSlots(firstEnd, secondStart)
    /\ appointments = <<>>
    /\ bookingRequests = <<>>
    /\ pc = "idle"
    /\ frame = None
    /\ call = [op |-> "none", id |-> 0]
    /\ result = [error |-> "", created |-> <<>>]

GenerateInWindow ==
    \E startLocation \in StartLocations, window \in PassWindows :
        generateBookingRequests("a1", Saturday, <<"c1">>, startLocation,
                                window.startTime, window.endTime)

NextPass == GenerateInWindow

SpecPass == InitPass /\ [][NextPass]_vars

----------------------------------------------------------------------------
(* A day of the scheduler: stores on which one generateSmartSchedule run     *)
(* books several slots in a row.                                             *)

Client(id, agentId, days, buckets) ==
    [id |-> id, agentId |-> agentId, preferredDays |-> days,
     preferredTimeSlots |-> buckets]

Property(id, lat) ==
    [id |-> id, latitude |-> lat, longitude |-> IF lat = None THEN None ELSE Some(0)]

plusMinutes(t, d) == Time((timeToMinutes(t) + d) \div 60, (timeToMinutes(t) + d) % 60)

DayLatitudes == {50, 1000}
DayFirstEnds == {Time(9, 30), Time(10, 0)}
DaySecondStarts ==
    {Time(9, 35), Time(9, 36), Time(10, 5), Time(10, 6), Time(11, 28), Time(11, 29),
     Time(11, 59)}

\* q2 lies 6 or 119 minutes north of q1, q3 6 minutes south of it, q4 has no
\* coordinates; d1 and d2 are clients of a1, d3 of a2.
TravelDay(lat, firstEnd, secondStart) ==
    [clients |->
        << Client("d1", "a1", {"Saturday"}, {"morning", "afternoon"}),
           Client("d2", "a1", {"Saturday", "Sunday"}, {"morning"}),
           Client("d3", "a2", {"Saturday"}, {"evening"}) >>,
     properties |->
        << Property("q1", Some(0)), Property("q2", Some(lat)),
           Property("q3", Some(0 - 50)), Property("q4", None) >>,
     propertyPreferences |->
        << Pref("d1", "q1", 1), Pref("d1", "q2", 1), Pref("d1", "q3", 1),
           Pref("d1", "q4", 1), Pref("d2", "q1", 1), Pref("d2", "q3", 2),
           Pref("d3", "q2", 1) >>,
     showingSlots |->
        << Slot("u1", "q1", Saturday, Time(9, 0), firstEnd, 10),
           Slot("u2", "q2", Saturday, secondStart, plusMinutes(secondStart, 20), 10),
           Slot("u3", "q3", Saturday, Time(10, 30), Time(11, 0), 10),
           Slot("u4", "q4", Saturday, Time(9, 0), Time(9, 30), 10),
           Slot("u5", "q1", Saturday, Time(13, 0), Time(13, 45), 10),
           Slot("u6", "q2", Saturday, Time(17, 30), Time(18, 0), 10),
           Slot("u7", "q1", Sunday, Time(9, 0), Time(10, 0), 10) >>]

\* One client with one preference, one free slot from 09:00 to 10:00.
SingleDay ==
    [clients |-> << Client("e1", "a1", {"Saturday"}, {"morning"}) >>,
     properties |-> << Property("q1", Some(0)) >>,
     propertyPreferences |-> << Pref("e1", "q1", 1) >>,
     showingSlots |-> << Slot("u1", "q1", Saturday, Time(9, 0), Time(10, 0), 10) >>]

\* One client with the priorities 0, 99 and 0 for three properties whose slots
\* were stored in no particular order.
PriorityDay ==
    [clients |-> << Client("f1", "a1", {"Saturday"}, {"morning", "afternoon"}) >>,
     properties |->
        << Property("qa", Some(0)), Property("qw", Some(0)), Property("qc", Some(0)) >>,
     propertyPreferences |->
        << Pref("f1", "qa", 0), Pref("f1", "qw", 99), Pref("f1", "qc", 0) >>,
     showingSlots |->
        << Slot("w1", "qa", Saturday, Time(11, 0), Time(11, 30), 10),
           Slot("w2", "qa", Saturday, Time(9, 0), Time(9, 30), 10),
           Slot("w3", "qw", Saturday, Time(9, 0), Time(9, 30), 10),
           Slot("w4", "qc", Saturday, Time(10, 0), Time(10, 30), 10),
           Slot("w5", "qc", Saturday, Time(11, 0), Time(11, 30), 10),
           Slot("w6", "qc", Saturday, Time(12, 0), Time(12, 30), 10),
           Slot("w7", "qc", Saturday, Time(9, 0), Time(9, 30), 10) >>]

Days ==
    {TravelDay(lat, firstEnd, secondStart) :
        lat \in DayLatitudes, firstEnd \in DayFirstEnds, secondStart \in DaySecondStarts}
    \cup {SingleDay, PriorityDay}

InitDay ==
    /\ \E day \in Days :
        /\ clients = day.clients
        /\ properties = day.properties
        /\ propertyPreferences = day.propertyPreferences
        /\ showingSlots = day.showingSlots
    /\ appointments = <<>>
    /\ bookingRequests = <<>>
    /\ pc = "idle"
    /\ frame = None
    /\ call = [op |-> "none", id |-> 0]
    /\ result = [error |-> "", created |-> <<>>]

NextDay == GenerateSmartSchedule

SpecDay == InitDay /\ [][NextDay]_vars

----------------------------------------------------------------------------
(* Two generateSmartSchedule calls for agent a1 and the same Saturday, their  *)
(* steps in any order.                                                        *)

RaceDays == {SingleDay, TravelDay(50, Time(9, 30), Time(9, 36)),
             TravelDay(1000, Time(10, 0), Time(11, 59))}

InitRace ==
    /\ \E day \in RaceDays :
        /\ clients = day.clients
        /\ properties = day.properties
        /\ propertyPreferences = day.propertyPreferences
        /\ showingSlots = day.showingSlots
    /\ appointments = <<>>
    /\ bookingRequests = <<>>
    /\ pc = [r \in Runs |-> "start"]
    /\ frame = [runs |-> [r \in Runs |-> noLocals], interleaved |-> FALSE]
    /\ call = [op |-> "none", id |-> 0]
    /\ result = [error |-> "", created |-> <<>>]

ScheduleCollect ==
    \E r \in Runs, startingLocation \in StartLocations :
        scheduleCollect(r, "a1", Saturday, startingLocation, Time(8, 0))

ScheduleCreateAppointment == \E r \in Runs : scheduleCreateAppointment(r)

ScheduleUpdateShowingSlot == \E r \in Runs : scheduleUpdateShowingSlot(r)

NextRace ==
    \/ ScheduleCollect
    \/ ScheduleCreateAppointment
    \/ ScheduleUpdateShowingSlot

SpecRace == InitRace /\ [][NextRace]_vars

\* The steps of the selection loop of call r.
loopStep(r) == scheduleCreateAppointment(r) \/ scheduleUpdateShowingSlot(r)

\* The two calls, where a call that has started is resumed in the end: an
\* awaited storage call resolves and the event loop runs the continuation.
\* When a call starts is left open.
SpecLoop ==
    /\ InitRace
    /\ [][NextRace]_vars
    /\ WF_vars(loopStep(1))
    /\ WF_vars(loopStep(2))

----------------------------------------------------------------------------
(* Two generateBookingRequests calls for agent a1 and the same Saturday, their *)
(* steps in any order.                                                         *)

InitOrchestrate ==
    /\ clients = InitClients
    /\ properties = InitProperties
    /\ propertyPreferences = InitPreferences
    /\ showingSlots = InitSlots
    /\ appointments = <<>>
    /\ bookingRequests = <<>>
    /\ pc = [r \in Runs |-> "start"]
    /\ frame = [runs |-> [r \in Runs |-> noBookings], interleaved |-> FALSE]
    /\ call = [op |-> "none", id |-> 0]
    /\ result = [error |-> "", created |-> <<>>]

GenerateCollect ==
    \E r \in Runs, clientIds \in ClientIdLists, startLocation \in StartLocations :
        generateCollect(r, "a1", Saturday, clientIds, startLocation,
                        Time(9, 0), Time(17, 0))

GenerateCreateBookingRequest == \E r \in Runs : generateCreateBookingRequest(r)

NextOrchestrate ==
    \/ GenerateCollect
    \/ GenerateCreateBookingRequest

SpecOrchestrate == InitOrchestrate /\ [][NextOrchestrate]_vars

----------------------------------------------------------------------------
(* Two confirmBookingRequest calls, their steps in any order, on the store   *)
(* that generateBookingRequests("a1", Saturday, ["c1", "c2"], p2's location) *)
(* leaves: a pending request on s3 and one on s2.                            *)

PendingRequests ==
    << [id |-> 1, agentId |-> "a1", propertyId |-> "p2", slotId |-> "s3",
        clientIds |-> <<"c1", "c1">>, status |-> "pending",
        notes |-> <<"Automated booking request", 2>>,
        travelTimeFromPrevious |-> None, distanceFromPrevious |-> None,
        respondedAt |-> None],
       [id |-> 2, agentId |-> "a1", propertyId |-> "p1", slotId |-> "s2",
        clientIds |-> <<"c1", "c2">>, status |-> "pending",
        notes |-> <<"Automated booking request", 2>>,
        travelTimeFromPrevious |-> Some(7), distanceFromPrevious |-> Some(5559),
        respondedAt |-> None] >>

InitConfirm ==
    /\ clients = InitClients
    /\ properties = InitProperties
    /\ propertyPreferences = InitPreferences
    /\ showingSlots = InitSlots
    /\ appointments = <<>>
    /\ bookingRequests = PendingRequests
    /\ pc = [r \in Runs |-> "start"]
    /\ frame = [runs |-> [r \in Runs |-> noConfirmation]]
    /\ call = [op |-> "none", id |-> 0]
    /\ result = [error |-> "", created |-> <<>>]

ConfirmRead ==
    \E r \in Runs, requestId \in 1..(Len(bookingRequests) + 1) : confirmRead(r, requestId)

ConfirmCreate == \E r \in Runs : confirmCreate(r)

ConfirmUpdate == \E r \in Runs : confirmUpdate(r)

NextConfirm ==
    \/ ConfirmRead
    \/ ConfirmCreate
    \/ ConfirmUpdate

SpecConfirm == InitConfirm /\ [][NextConfirm]_vars

----------------------------------------------------------------------------
(* Properties *)

isActive(request) == request.status = "pending" \/ request.status = "confirmed"

\* The appointments the scheduler made: those with no originating request.
smartAppointments_made(apps) ==
    {i \in 1..Len(apps) : ~IsSome(apps[i].bookingRequestId)}

\* The appointments materialized for booking request id.
appointmentsOf(id) ==
    {i \in 1..Len(appointments) : appointments[i].bookingRequestId = Some(id)}

slotOf(request) == Val(getShowingSlot(request.slotId))

\* C1: every persisted BookingRequest holds at most maxCapacity client ids of
\* the slot it references; a slot with more interested clients than its
\* capacity gets no request.
C1_CapacityRespected ==
    \A i \in 1..Len(bookingRequests) :
        Len(bookingRequests[i].clientIds) <= slotOf(bookingRequests[i]).maxCapacity

\* A run for c1 and c2 has just put both on s2 (capacity 2) while s1 (capacity 1,
\* same property, earlier) is left free.
C1_Witness ==
    /\ call.op = "generateBookingRequests"
    /\ \E k \in 1..Len(result.created) :
            /\ bookingRequests[result.created[k]].slotId = "s2"
            /\ Len(bookingRequests[result.created[k]].clientIds) = 2
            /\ slotOf(bookingRequests[result.created[k]]).maxCapacity = 2
    /\ showingSlots[1].isBooked = "false"
    /\ \A i \in 1..Len(bookingRequests) : bookingRequests[i].slotId # "s1"

\* C2: no two appointments made by the scheduler for the same client have
\* overlapping windows [scheduledDate, scheduledDate + duration).
C2_NoClientOverlap ==
    \A i, j \in smartAppointments_made(appointments) :
        (/\ i # j
         /\ appointments[i].clientId = appointments[j].clientId
         /\ appointments[i].scheduledDate.day = appointments[j].scheduledDate.day)
        => \/ appointments[i].scheduledDate.min + appointments[i].duration
                <= appointments[j].scheduledDate.min
           \/ appointments[j].scheduledDate.min + appointments[j].duration
                <= appointments[i].scheduledDate.min

\* C3: the scheduler only books slots that are unbooked when the run starts,
\* and every slot backs at most one of the scheduler's appointments.
C3_SlotBookedOnce ==
    [][ /\ \A i \in smartAppointments_made(appointments') :
              i > Len(appointments)
              => Val(getShowingSlot(appointments'[i].slotId)).isBooked = "false"
        /\ \A i, j \in smartAppointments_made(appointments') :
              appointments'[i].slotId = appointments'[j].slotId => i = j ]_vars

\* A later run has booked a slot after an earlier run had booked s1, which two
\* clients competed for.
C3_Witness ==
    /\ call.op = "generateSmartSchedule"
    /\ Len(result.created) > 0
    /\ \E i \in smartAppointments_made(appointments) :
            /\ i \notin Range(result.created)
            /\ appointments[i].slotId = "s1"
    /\ \A n \in 1..3 : showingSlots[n].isBooked = "true"

\* C4: no slot is referenced by two pending or confirmed requests of one agent,
\* and no request is created for a slot with isBooked = "true".
C4_NoDuplicateOrchestration ==
    [][ /\ \A i \in 1..Len(bookingRequests') :
              i > Len(bookingRequests)
              => Val(getShowingSlot(bookingRequests'[i].slotId)).isBooked = "false"
        /\ \A i, j \in 1..Len(bookingRequests') :
              (/\ bookingRequests'[i].agentId = bookingRequests'[j].agentId
               /\ bookingRequests'[i].slotId = bookingRequests'[j].slotId
               /\ isActive(bookingRequests'[i])
               /\ isActive(bookingRequests'[j]))
              => i = j ]_vars

\* A run has just created a request on s3 only: s2, which it could have reached
\* afterwards, is referenced by an earlier pending or confirmed request, and s1
\* is booked.
C4_Witness ==
    /\ call.op = "generateBookingRequests"
    /\ Len(result.created) = 1
    /\ bookingRequests[result.created[1]].slotId = "s3"
    /\ showingSlots[1].isBooked = "true"
    /\ \E i \in 1..Len(bookingRequests) :
            /\ i \notin Range(result.created)
            /\ isActive(bookingRequests[i])
            /\ bookingRequests[i].slotId = "s2"

\* C5: the scheduler creates no appointment on a slot that a pending or
\* confirmed BookingRequest references.
C5_NoScheduleOnRequestedSlot ==
    \A i \in smartAppointments_made(appointments) :
        \A r \in 1..Len(bookingRequests) :
            isActive(bookingRequests[r])
            => bookingRequests[r].slotId # appointments[i].slotId

\* C6: the appointments of one generateSmartSchedule run are for pairwise
\* different (client, property) pairs.
C6_OnePerClientProperty ==
    call.op = "generateSmartSchedule"
    => \A i, j \in Range(result.created) :
          (/\ appointments[i].clientId = appointments[j].clientId
           /\ appointments[i].propertyId = appointments[j].propertyId)
          => i = j

\* One run has booked c1 twice, into two properties, while p1 offered c1 two
\* free slots when the store was fresh.
C6_Witness ==
    /\ call.op = "generateSmartSchedule"
    /\ Len(result.created) = 2
    /\ \A i \in Range(result.created) : appointments[i].clientId = "c1"

\* C7: a request is created pending, its status only changes from pending to
\* confirmed or to rejected, and a confirmed or rejected request keeps its status.
C7_StatusTransitions ==
    [][ /\ Len(bookingRequests') >= Len(bookingRequests)
        /\ \A i \in 1..Len(bookingRequests') :
              IF i > Len(bookingRequests)
              THEN bookingRequests'[i].status = "pending"
              ELSE \/ bookingRequests'[i].status = bookingRequests[i].status
                   \/ /\ bookingRequests[i].status = "pending"
                      /\ bookingRequests'[i].status \in {"confirmed", "rejected"} ]_vars

\* A confirm or reject call has just been refused on a request that had been
\* confirmed, next to one that had been rejected.
C7_Witness ==
    /\ pc = "idle"
    /\ call.op \in {"confirmBookingRequest", "rejectBookingRequest"}
    /\ result.error # ""
    /\ call.id \in 1..Len(bookingRequests)
    /\ bookingRequests[call.id].status = "confirmed"
    /\ \E i \in 1..Len(bookingRequests) : bookingRequests[i].status = "rejected"

\* C8: confirmBookingRequest on a confirmed or rejected request fails with the
\* invalid-state error, creates no appointment and leaves the request as it is.
C8_ConfirmNeedsPending ==
    [][ (/\ pc = "idle"
         /\ call'.op = "confirmBookingRequest"
         /\ call'.id \in 1..Len(bookingRequests)
         /\ bookingRequests[call'.id].status \in {"confirmed", "rejected"})
        => /\ result'.error = "Only pending requests can be confirmed"
           /\ pc' = "idle"
           /\ appointments' = appointments
           /\ bookingRequests' = bookingRequests ]_vars

\* confirmBookingRequest has just been refused on a request confirmed before.
C8_Witness ==
    /\ pc = "idle"
    /\ call.op = "confirmBookingRequest"
    /\ call.id \in 1..Len(bookingRequests)
    /\ bookingRequests[call.id].status = "confirmed"
    /\ result.error = "Only pending requests can be confirmed"
    /\ Cardinality(appointmentsOf(call.id)) = Len(bookingRequests[call.id].clientIds)

C11_RejectFreesSlot ==
    /\ [][ \A requestId \in 1..Len(bookingRequests) :
            (/\ pc = "idle"
             /\ call' = [op |-> "rejectBookingRequest", id |-> requestId]
             /\ bookingRequests[requestId].status = "pending")
            => /\ result'.error = ""
               /\ bookingRequests'[requestId].status = "rejected"
               /\ Len(bookingRequests') = Len(bookingRequests)
               /\ appointments' = appointments
               /\ showingSlots' = showingSlots ]_vars
    /\ [](  (/\ pc = "idle"
             /\ call.op = "rejectBookingRequest"
             /\ result.error = "")
            => LET request == bookingRequests[call.id]
                   date == slotOf(request).date
               IN /\ request.status = "rejected"
                  /\ request.slotId \notin bookedSlotIds(request.agentId, date)
                  /\ \E cand \in Range(slotCandidates(request.agentId, date,
                                            validClients(request.clientIds))) :
                        cand.slot.id = request.slotId )

\* A run has just created a pending request for a slot and clients for which an
\* earlier request was rejected.
C11_Witness ==
    /\ call.op = "generateBookingRequests"
    /\ \E k \in Range(result.created) :
        \E i \in 1..Len(bookingRequests) :
            /\ i < k
            /\ bookingRequests[i].status = "rejected"
            /\ bookingRequests[i].slotId = bookingRequests[k].slotId
            /\ bookingRequests[i].agentId = bookingRequests[k].agentId
            /\ bookingRequests[i].clientIds = bookingRequests[k].clientIds
            /\ bookingRequests[k].status = "pending"
            /\ slotOf(bookingRequests[k]).isBooked = "false"

\* C12: rejectBookingRequest on a request that a first call has rejected fails
\* with the invalid-state error and leaves requests, appointments and slots as
\* they were.
C12_RejectTwice ==
    [][ (/\ pc = "idle"
         /\ call'.op = "rejectBookingRequest"
         /\ call'.id \in 1..Len(bookingRequests)
         /\ bookingRequests[call'.id].status = "rejected")
        => /\ result'.error = "Only pending requests can be rejected"
           /\ bookingRequests' = bookingRequests
           /\ appointments' = appointments
           /\ showingSlots' = showingSlots ]_vars

\* A second rejectBookingRequest has just been refused on a request rejected with
\* a reason.
C12_Witness ==
    /\ pc = "idle"
    /\ call.op = "rejectBookingRequest"
    /\ call.id \in 1..Len(bookingRequests)
    /\ result.error = "Only pending requests can be rejected"
    /\ bookingRequests[call.id].status = "rejected"
    /\ bookingRequests[call.id].notes = <<"Rejected", "busy">>
    /\ IsSome(bookingRequests[call.id].respondedAt)

\* C13: generateBookingRequests called with client ids none of which resolves
\* (the empty list included) fails with "No valid clients found", persists no
\* request and changes nothing in the store.
C13_NoValidClients ==
    [][ \A date \in InputDates, clientIds \in ClientIdLists,
           startLocation \in StartLocations :
            (/\ \A i \in 1..Len(clientIds) : ~IsSome(getClient(clientIds[i]))
             /\ generateBookingRequests("a1", date, clientIds, startLocation,
                                        Time(9, 0), Time(17, 0)))
            => /\ result'.error = "No valid clients found"
               /\ result'.created = <<>>
               /\ bookingRequests' = bookingRequests
               /\ appointments' = appointments
               /\ showingSlots' = showingSlots
               /\ clients' = clients ]_vars

\* A run has just failed for want of valid clients on a store that holds a
\* request.
C13_Witness ==
    /\ call.op = "generateBookingRequests"
    /\ result.error = "No valid clients found"
    /\ result.created = <<>>
    /\ Len(bookingRequests) > 0

\* C14: a completed confirmBookingRequest or rejectBookingRequest that named a
\* missing booking request has failed with the not-found error, and a completed
\* confirmBookingRequest that got past the status check on a request whose slot
\* or one of whose clients is missing has failed with a not-found error, has
\* created no appointment and has left the request pending.
C14_NotFoundSurfaced ==
    (pc = "idle" /\ call.op \in {"confirmBookingRequest", "rejectBookingRequest"})
    => /\ call.id \notin 1..Len(bookingRequests)
          => result.error = "Booking request not found"
       /\ (/\ call.op = "confirmBookingRequest"
           /\ call.id \in 1..Len(bookingRequests)
           /\ result.error # "Only pending requests can be confirmed"
           /\ \/ ~IsSome(getShowingSlot(bookingRequests[call.id].slotId))
              \/ \E c \in Range(bookingRequests[call.id].clientIds) :
                    ~IsSome(getClient(c)))
          => /\ result.error \in {"Showing slot not found", "Client not found"}
             /\ result.created = <<>>
             /\ appointmentsOf(call.id) = {}
             /\ bookingRequests[call.id].status = "pending"

\* C15: a generateSmartSchedule run for an agent none of whose clients has the
\* weekday of the date in preferredDays returns the all-zero result without an
\* error, creates no appointment and changes no slot.
C15_NoAvailableClients ==
    [][ \A agentId \in Agents, date \in InputDates, startingLocation \in StartLocations :
            (/\ \A c \in Range(getClientsByAgent(agentId)) :
                    dayOfWeek(date) \notin c.preferredDays
             /\ generateSmartSchedule(agentId, date, startingLocation, Time(8, 0)))
            => /\ result' = [error |-> "", created |-> <<>>, totalDistance |-> 0,
                             totalTravelTime |-> 0, clientsScheduled |-> 0,
                             propertiesVisited |-> 0]
               /\ appointments' = appointments
               /\ showingSlots' = showingSlots
               /\ bookingRequests' = bookingRequests ]_vars

\* A run for a2 on a Saturday, when its only client c3 takes Sundays and a
\* morning slot of the property c3 prefers is free, has returned the zero result.
C15_Witness ==
    /\ call.op = "generateSmartSchedule"
    /\ call.agentId = "a2"
    /\ call.date = Saturday
    /\ Len(getClientsByAgent("a2")) = 1
    /\ result.error = ""
    /\ result.created = <<>>
    /\ result.clientsScheduled = 0
    /\ Len(getAvailableSlots("p2", Saturday)) > 0

\* C19: every appointment created by a run that the route invoked with a
\* non-empty selectedProperties list is for a property of that list.
C19_SelectedPropertiesOnly ==
    [][ \A agentId \in Agents, date \in InputDates, startingLocation \in StartLocations,
           selectedProperties \in SelectedPropertyLists :
            (/\ Len(selectedProperties) > 0
             /\ smartScheduleRoute(agentId, date, startingLocation, selectedProperties))
            => \A i \in (Len(appointments) + 1)..Len(appointments') :
                    appointments'[i].propertyId \in Range(selectedProperties) ]_vars

\* The stored appointments whose property is stored, in input order.
knownAppointments ==
    SelectSeq(appointments, LAMBDA a : \E q \in Range(properties) : q.id = a.propertyId)

propertyOf(a) == CHOOSE q \in Range(properties) : q.id = a.propertyId

\* The appointment's property is stored and has both coordinates.
geocoded(a) ==
    \E q \in Range(properties) :
        q.id = a.propertyId /\ IsSome(q.latitude) /\ IsSome(q.longitude)

milesBetween(a, b) ==
    DI_calculateDistance(Val(propertyOf(a).latitude), Val(propertyOf(a).longitude),
                         Val(propertyOf(b).latitude), Val(propertyOf(b).longitude))

\* The stops are the given appointments in their order, none with a distance or
\* a travel time.
stopsInInputOrder(stops, apps) ==
    /\ Len(stops) = Len(apps)
    /\ \A k \in 1..Len(stops) :
        /\ stops[k].appointment = apps[k]
        /\ stops[k].property = propertyOf(apps[k])
        /\ stops[k].distanceFromPrevious = None
        /\ stops[k].estimatedTravelTime = None

\* C16: for an input of zero or one appointment optimizeRoute returns
\* optimized = true with totalDistance = 0 and totalTravelTime = 0, and the
\* single stop, if there is one, has no distanceFromPrevious and no
\* estimatedTravelTime.
C16_ZeroOrOneStop ==
    (call.op = "optimizeRoute" /\ Len(appointments) <= 1)
    => /\ result.optimized = TRUE
       /\ result.totalDistance = 0
       /\ result.totalTravelTime = 0
       /\ stopsInInputOrder(result.stops, knownAppointments)

\* optimizeRoute has returned a single stop for one appointment whose property
\* has no coordinates.
C16_Witness ==
    /\ call.op = "optimizeRoute"
    /\ Len(appointments) = 1
    /\ appointments[1].propertyId = "pN"
    /\ Len(result.stops) = 1
    /\ result.optimized = TRUE

\* C17 as stated: for every route none of whose appointments has a property
\* with both coordinates, optimizeRoute returns the stops in input order with
\* totalDistance = 0, totalTravelTime = 0 and optimized = false.
C17_NoCoordinatesAnyRoute ==
    (/\ call.op = "optimizeRoute"
     /\ \A a \in Range(knownAppointments) : ~geocoded(a))
    => /\ stopsInInputOrder(result.stops, knownAppointments)
       /\ result.totalDistance = 0
       /\ result.totalTravelTime = 0
       /\ result.optimized = FALSE

\* C17 for routes of two or more stops: when at least two appointments have a
\* stored property and none of these has both coordinates, optimizeRoute
\* returns the stops in input order with totalDistance = 0, totalTravelTime = 0
\* and optimized = false.
C17_NoCoordinates ==
    (/\ call.op = "optimizeRoute"
     /\ Len(knownAppointments) >= 2
     /\ \A a \in Range(knownAppointments) : ~geocoded(a))
    => /\ stopsInInputOrder(result.stops, knownAppointments)
       /\ result.totalDistance = 0
       /\ result.totalTravelTime = 0
       /\ result.optimized = FALSE

\* optimizeRoute has returned two stops, unoptimized, for appointments at a
\* property with a latitude only, at a property that is not stored and at a
\* property without coordinates.
C17_Witness ==
    /\ call.op = "optimizeRoute"
    /\ [k \in 1..Len(appointments) |-> appointments[k].propertyId] = <<"pD", "px", "pN">>
    /\ Len(result.stops) = 2
    /\ result.stops[1].appointment.id = 1
    /\ result.stops[2].appointment.id = 3
    /\ result.optimized = FALSE

\* C18: for two or more appointments, all with coordinates, the route starts
\* with the first appointment, visits every appointment once, each next stop
\* being the unvisited appointment nearest to the previous stop (the earliest in
\* input order among equally near ones), and totalDistance is the sum of the
\* stops' distanceFromPrevious.
C18_NearestNeighbour ==
    (/\ call.op = "optimizeRoute"
     /\ Len(appointments) >= 2
     /\ \A a \in Range(appointments) : geocoded(a))
    => LET stops == result.stops
           n == Len(appointments)
       IN /\ Len(stops) = n
          /\ result.optimized = TRUE
          /\ stops[1].appointment = appointments[1]
          /\ stops[1].distanceFromPrevious = None
          /\ {stops[k].appointment : k \in 1..n} = Range(appointments)
          /\ \A k \in 2..n :
                LET prev == stops[k - 1].appointment
                    cur == stops[k].appointment
                    remaining == Range(appointments)
                                    \ {stops[m].appointment : m \in 1..(k - 1)}
                IN /\ \A r \in remaining :
                        \/ milesBetween(prev, cur) < milesBetween(prev, r)
                        \/ /\ milesBetween(prev, cur) = milesBetween(prev, r)
                           /\ cur.id <= r.id
                   /\ stops[k].distanceFromPrevious = Some(milesBetween(prev, cur))
          /\ result.totalDistance =
                SumSeq([k \in 1..(n - 1) |-> Val(stops[k + 1].distanceFromPrevious)])

\* The collinear example: appointments at A, C, B (B 10 miles and C 30 miles
\* from A) are visited in the order A, B, C over 30 miles in total.
C18_Witness ==
    /\ call.op = "optimizeRoute"
    /\ [k \in 1..Len(appointments) |-> appointments[k].propertyId] = <<"pA", "pC", "pB">>
    /\ [k \in 1..Len(result.stops) |-> result.stops[k].property.id] = <<"pA", "pB", "pC">>
    /\ result.totalDistance = 29986
    /\ result.stops[2].distanceFromPrevious = Some(10018)

\* calculateTravelTime(calculateDistance(...)) from a location to a property.
travelTimeTo(location, property) ==
    BO_calculateTravelTime(BO_calculateDistance(location.lat, location.lng,
        Val(property.latitude), Val(property.longitude)))

locationOf(property) ==
    [lat |-> Val(property.latitude), lng |-> Val(property.longitude)]

\* C20: in a generateBookingRequests run, a candidate of the time-sorted list
\* that is inside the working hours, whose property has coordinates and is not
\* yet booked in this run, gets a request if and only if
\* currentTime + travelTime <= its start (currentTime and the current location
\* being the window's start and the start location, or the end and the
\* property of the last candidate accepted before it); consecutive requests
\* satisfy previous end + travelTime <= next start, and the requests are
\* created in ascending order of start time.
C20_ForwardPass ==
    [][\A startLocation \in StartLocations, window \in PassWindows :
        generateBookingRequests("a1", Saturday, <<"c1">>, startLocation,
                                window.startTime, window.endTime)
        => LET cands == slotCandidates("a1", Saturday, validClients(<<"c1">>))
               created == SubSeq(bookingRequests', Len(bookingRequests) + 1,
                                 Len(bookingRequests'))
               accepted == {k \in 1..Len(cands) :
                               \E i \in 1..Len(created) :
                                   created[i].slotId = cands[k].slot.id}
               earlier(k) == {j \in accepted : j < k}
               last(k) == CHOOSE j \in earlier(k) : \A i \in earlier(k) : i <= j
               currentTime(k) ==
                   IF earlier(k) = {} THEN timeToMinutes(window.startTime)
                   ELSE cands[last(k)].endMinutes
               currentLocation(k) ==
                   IF earlier(k) = {} THEN startLocation
                   ELSE locationOf(cands[last(k)].property)
               eligible(k) ==
                   /\ cands[k].startMinutes >= timeToMinutes(window.startTime)
                   /\ cands[k].endMinutes <= timeToMinutes(window.endTime)
                   /\ IsSome(cands[k].property.latitude)
                   /\ IsSome(cands[k].property.longitude)
                   /\ \A j \in earlier(k) : cands[j].property.id # cands[k].property.id
           IN /\ \A i \in 1..Len(created) :
                    \E k \in 1..Len(cands) : created[i].slotId = cands[k].slot.id
              /\ \A k \in 1..Len(cands) :
                    eligible(k)
                    => (k \in accepted
                        <=> currentTime(k) + travelTimeTo(currentLocation(k),
                                                          cands[k].property)
                              <= cands[k].startMinutes)
              /\ \A i \in 1..(Len(created) - 1) :
                    LET previous == created[i]
                        next == created[i + 1]
                    IN /\ timeToMinutes(slotOf(previous).endTime)
                            + travelTimeTo(
                                locationOf(Val(getProperty(previous.propertyId))),
                                Val(getProperty(next.propertyId)))
                          <= timeToMinutes(slotOf(next).startTime)
                       /\ timeToMinutes(slotOf(previous).startTime)
                          <= timeToMinutes(slotOf(next).startTime)
      ]_vars

\* q2 lies 1000 millidegrees (111 km) from q1 and its slot starts at 09:10, ten
\* minutes after the slot of q1: a run starting at q1 has created exactly one
\* request, for the 09:00 slot of q1.
C20_Witness ==
    /\ call.op = "generateBookingRequests"
    /\ \E q \in Range(properties) : q.id = "q2" /\ q.latitude = Some(1000)
    /\ \E t \in Range(showingSlots) : t.id = "t2" /\ t.startTime = Time(9, 10)
    /\ Len(bookingRequests) = 1
    /\ result.created = <<1>>
    /\ bookingRequests[1].slotId = "t1"

\* The requests a run has appended to the store.
createdRequests == SubSeq(bookingRequests', Len(bookingRequests) + 1, Len(bookingRequests'))

\* C27: every request created by generateBookingRequests is for a slot inside
\* the working hours (slot start >= startTime and slot end <= endTime) and for
\* a property that has both coordinates.
C27_InsideWorkingHours ==
    [][\A startLocation \in StartLocations, window \in PassWindows :
        generateBookingRequests("a1", Saturday, <<"c1">>, startLocation,
                                window.startTime, window.endTime)
        => \A i \in 1..Len(createdRequests) :
              LET request == createdRequests[i]
                  property == Val(getProperty(request.propertyId))
              IN /\ timeToMinutes(slotOf(request).startTime)
                        >= timeToMinutes(window.startTime)
                 /\ timeToMinutes(slotOf(request).endTime)
                        <= timeToMinutes(window.endTime)
                 /\ IsSome(property.latitude)
                 /\ IsSome(property.longitude)
      ]_vars

\* A run with the window 08:00-12:00 has created one request, for the 09:00
\* slot of q1: the slot of q2 from 12:02 to 12:22, seven minutes away, and the
\* afternoon slots were left out.
C27_Witness ==
    /\ call.op = "generateBookingRequests"
    /\ \E q \in Range(properties) : q.id = "q2" /\ q.latitude = Some(50)
    /\ \E t \in Range(showingSlots) : t.id = "t2" /\ t.startTime = Time(12, 2)
    /\ Len(bookingRequests) = 1
    /\ result.created = <<1>>
    /\ bookingRequests[1].slotId = "t1"

\* C28: the requests created by one generateBookingRequests run are for
\* pairwise different properties.
C28_OneRequestPerProperty ==
    [][\A startLocation \in StartLocations, window \in PassWindows :
        generateBookingRequests("a1", Saturday, <<"c1">>, startLocation,
                                window.startTime, window.endTime)
        => \A i, j \in 1..Len(createdRequests) :
              createdRequests[i].propertyId = createdRequests[j].propertyId => i = j
      ]_vars

\* One run has created two requests, for the 09:00 slot of q1 and the 12:02
\* slot of q2, although the 13:00 slot of q1 and the 15:00 slot of q2 are free
\* and could be reached in time.
C28_Witness ==
    /\ call.op = "generateBookingRequests"
    /\ \E q \in Range(properties) : q.id = "q2" /\ q.latitude = Some(50)
    /\ \E t \in Range(showingSlots) : t.id = "t2" /\ t.startTime = Time(12, 2)
    /\ result.created = <<1, 2>>
    /\ bookingRequests[1].slotId = "t1"
    /\ bookingRequests[2].slotId = "t2"

\* C29: the first request created by a generateBookingRequests run has neither
\* travelTimeFromPrevious nor distanceFromPrevious, and every later request of
\* the run has both, equal to the travel time and the distance from the
\* property of the request before it.
C29_TravelMetricsRecorded ==
    [][\A startLocation \in StartLocations, window \in PassWindows :
        generateBookingRequests("a1", Saturday, <<"c1">>, startLocation,
                                window.startTime, window.endTime)
        => \A i \in 1..Len(createdRequests) :
              LET request == createdRequests[i]
              IN IF i = 1
                 THEN /\ request.travelTimeFromPrevious = None
                      /\ request.distanceFromPrevious = None
                 ELSE LET previous == Val(getProperty(createdRequests[i - 1].propertyId))
                          own == Val(getProperty(request.propertyId))
                          distance == BO_calculateDistance(
                              Val(previous.latitude), Val(previous.longitude),
                              Val(own.latitude), Val(own.longitude))
                      IN /\ request.travelTimeFromPrevious
                                = Some(BO_calculateTravelTime(distance))
                         /\ request.distanceFromPrevious = Some(distance)
      ]_vars

noDuplicates(s) == \A i, j \in 1..Len(s) : s[i] = s[j] => i = j

\* C30: no client id occurs twice in the clientIds of a booking request.
C30_ClientIdsAreSet ==
    \A i \in 1..Len(bookingRequests) : noDuplicates(bookingRequests[i].clientIds)

\* The appointments a run has appended to the store.
runAppointments == SubSeq(appointments', Len(appointments) + 1, Len(appointments'))

endMinute(appointment) == appointment.scheduledDate.min + appointment.duration

\* The cursor before the k-th appointment of a run that started at startTime
\* and startingLocation.
cursorTime(k, startTime) ==
    IF k = 1 THEN timeToMinutes(startTime) ELSE endMinute(runAppointments[k - 1])

cursorLocation(k, startingLocation) ==
    IF k = 1 THEN startingLocation
    ELSE locationOf(Val(getProperty(runAppointments[k - 1].propertyId)))

milesTo(location, property) ==
    SS_calculateDistance(location.lat, location.lng,
                         Val(property.latitude), Val(property.longitude))

\* C22: every appointment created by a generateSmartSchedule run could be
\* reached when it was chosen: cursor time + ceil(distance / 35 * 60) <= its
\* start, the cursor being startTime and startLocation for the first one and
\* the end and the property of the appointment before it for the others; the
\* appointments of the run are in chronological order.
C22_ReachableWhenChosen ==
    [][\A agentId \in Agents, date \in InputDates, startingLocation \in StartLocations :
        generateSmartSchedule(agentId, date, startingLocation, Time(8, 0))
        => \A k \in 1..Len(runAppointments) :
              LET appointment == runAppointments[k]
                  distance == milesTo(cursorLocation(k, startingLocation),
                                      Val(getProperty(appointment.propertyId)))
              IN /\ cursorTime(k, Time(8, 0)) + SS_calculateTravelTime(distance)
                        <= appointment.scheduledDate.min
                 /\ k > 1 => runAppointments[k - 1].scheduledDate.min
                                <= appointment.scheduledDate.min
      ]_vars

\* A run has booked q1 from 09:00 to 09:30 and then q2, six minutes away, at
\* 09:36.
C22_Witness ==
    /\ call.op = "generateSmartSchedule"
    /\ \E q \in Range(properties) : q.id = "q2" /\ q.latitude = Some(50)
    /\ Len(result.created) >= 2
    /\ result.created[1] = 1
    /\ appointments[1].propertyId = "q1"
    /\ endMinute(appointments[1]) = 9 * 60 + 30
    /\ appointments[2].propertyId = "q2"
    /\ appointments[2].scheduledDate.min = 9 * 60 + 36

\* The selection pool of a run, from the store the run starts on.
selectionPool(agentId, date) ==
    LET candidates == scheduleCandidates(agentId, date)
    IN selectedCandidates(ArraySort(candidates,
            [a, b \in 1..Len(candidates) |->
                compareCandidates(candidates[a], candidates[b])]))

\* C23: at every step of a generateSmartSchedule run the chosen candidate has
\* the smallest distance from the current location among the remaining
\* candidates that can be reached (the first in pool order among equally near
\* ones); after the last step no remaining candidate with coordinates and a
\* slot not taken in the run can be reached; the run returns without error.
C23_NearestReachable ==
    [][\A agentId \in Agents, date \in InputDates, startingLocation \in StartLocations :
        generateSmartSchedule(agentId, date, startingLocation, Time(8, 0))
        => LET pool == selectionPool(agentId, date)
               n == Len(runAppointments)
               matches(i, k) ==
                   /\ pool[i].client.id = runAppointments[k].clientId
                   /\ pool[i].property.id = runAppointments[k].propertyId
                   /\ timeToMinutes(pool[i].slot.startTime)
                        = runAppointments[k].scheduledDate.min
               indexOf(k) == CHOOSE i \in 1..Len(pool) : matches(i, k)
               taken(k) == {indexOf(j) : j \in 1..(k - 1)}
               distance(k, i) ==
                   milesTo(cursorLocation(k, startingLocation), pool[i].property)
               reachable(k) ==
                   {i \in (1..Len(pool)) \ taken(k) :
                       /\ IsSome(pool[i].property.latitude)
                       /\ IsSome(pool[i].property.longitude)
                       /\ \A j \in taken(k) : pool[j].slot.id # pool[i].slot.id
                       /\ cursorTime(k, Time(8, 0))
                            + SS_calculateTravelTime(distance(k, i))
                          <= timeToMinutes(pool[i].slot.startTime)}
           IN /\ \A k \in 1..n :
                    /\ \E i \in 1..Len(pool) : matches(i, k)
                    /\ indexOf(k) \in reachable(k)
                    /\ \A i \in reachable(k) :
                          \/ distance(k, indexOf(k)) < distance(k, i)
                          \/ /\ distance(k, indexOf(k)) = distance(k, i)
                             /\ indexOf(k) <= i
              /\ reachable(n + 1) = {}
              /\ result'.error = ""
      ]_vars

\* A run starting at q2 has booked q2 first, the nearest property, although the
\* 09:00 slot of q1 comes first in the pool and could be reached; that slot is
\* left free.
C23_Witness ==
    /\ call.op = "generateSmartSchedule"
    /\ \E q \in Range(properties) : q.id = "q2" /\ q.latitude = Some(50)
    /\ Len(result.created) >= 1
    /\ result.created[1] = 1
    /\ result.error = ""
    /\ appointments[1].propertyId = "q2"
    /\ appointments[1].scheduledDate.min = 9 * 60 + 35
    /\ \E t \in Range(showingSlots) : t.id = "u1" /\ t.isBooked = "false"

\* C24: a generateSmartSchedule run creates exactly one appointment for every
\* slot it books and books a slot for every appointment it creates: the
\* appointment is at the slot's start on the date, lasts from the slot's start
\* to its end, and the slot becomes isBooked = 'true' with bookedBy = the
\* appointment's client; the other slots are untouched; the result lists the
\* appointments and counts their distinct clients and properties.
C24_OneAppointmentPerBookedSlot ==
    [][\A agentId \in Agents, date \in InputDates, startingLocation \in StartLocations :
        generateSmartSchedule(agentId, date, startingLocation, Time(8, 0))
        => LET flipped == {n \in 1..Len(showingSlots) :
                              /\ showingSlots[n].isBooked = "false"
                              /\ showingSlots'[n].isBooked = "true"}
               bookedFor(n, k) ==
                   LET slot == showingSlots[n]
                       appointment == runAppointments[k]
                   IN /\ appointment.propertyId = slot.propertyId
                      /\ appointment.agentId = agentId
                      /\ appointment.scheduledDate
                            = [day |-> date.day, min |-> timeToMinutes(slot.startTime)]
                      /\ appointment.duration
                            = timeToMinutes(slot.endTime) - timeToMinutes(slot.startTime)
                      /\ showingSlots'[n].bookedBy = Some(appointment.clientId)
           IN /\ Len(showingSlots') = Len(showingSlots)
              /\ \A n \in 1..Len(showingSlots) :
                    IF n \in flipped
                    THEN Cardinality({k \in 1..Len(runAppointments) : bookedFor(n, k)}) = 1
                    ELSE showingSlots'[n] = showingSlots[n]
              /\ \A k \in 1..Len(runAppointments) :
                    Cardinality({n \in flipped : bookedFor(n, k)}) = 1
              /\ Cardinality(flipped) = Len(runAppointments)
              /\ result'.created
                    = [k \in 1..Len(runAppointments) |-> runAppointments[k].id]
              /\ result'.clientsScheduled
                    = Cardinality({runAppointments[k].clientId :
                                     k \in 1..Len(runAppointments)})
              /\ result'.propertiesVisited
                    = Cardinality({runAppointments[k].propertyId :
                                     k \in 1..Len(runAppointments)})
      ]_vars

\* One Saturday / morning client with one preference and one free slot from
\* 09:00 to 10:00, the run starting at the property: one appointment at 09:00
\* of 60 minutes, the slot booked by the client, clientsScheduled = 1,
\* propertiesVisited = 1, totalDistance = 0.
C24_Witness ==
    /\ call.op = "generateSmartSchedule"
    /\ clients = SingleDay.clients
    /\ Len(appointments) = 1
    /\ result.created = <<1>>
    /\ appointments[1].scheduledDate = [day |-> 6, min |-> 9 * 60]
    /\ appointments[1].duration = 60
    /\ showingSlots[1].isBooked = "true"
    /\ showingSlots[1].bookedBy = Some("e1")
    /\ result.clientsScheduled = 1
    /\ result.propertiesVisited = 1
    /\ result.totalDistance = 0

\* C25: every appointment created by a generateSmartSchedule run is for a
\* client of the agent whose preferredDays contains the weekday of the date and
\* whose preferredTimeSlots contains the bucket of the start hour (morning
\* before 12, afternoon before 17, evening otherwise), and for a property the
\* client holds a preference for.
C25_ClientAvailableAndInterested ==
    [][\A agentId \in Agents, date \in InputDates, startingLocation \in StartLocations :
        generateSmartSchedule(agentId, date, startingLocation, Time(8, 0))
        => \A k \in 1..Len(runAppointments) :
              LET appointment == runAppointments[k]
                  hour == appointment.scheduledDate.min \div 60
                  bucket == IF hour < 12 THEN "morning"
                            ELSE IF hour < 17 THEN "afternoon" ELSE "evening"
              IN /\ IsSome(getClient(appointment.clientId))
                 /\ Val(getClient(appointment.clientId)).agentId = agentId
                 /\ dayNames[(date.day % 7) + 1]
                        \in Val(getClient(appointment.clientId)).preferredDays
                 /\ bucket \in Val(getClient(appointment.clientId)).preferredTimeSlots
                 /\ \E preference \in Range(propertyPreferences) :
                        /\ preference.clientId = appointment.clientId
                        /\ preference.propertyId = appointment.propertyId
      ]_vars

\* A run for agent a2 has booked the 17:30 slot of q2 for d3, who prefers the
\* evening.
C25_Witness ==
    /\ call.op = "generateSmartSchedule"
    /\ call.agentId = "a2"
    /\ Len(result.created) = 1
    /\ LET appointment == appointments[result.created[1]]
       IN /\ appointment.clientId = "d3"
          /\ appointment.propertyId = "q2"
          /\ appointment.scheduledDate.min = 17 * 60 + 30

\* C26: the selection pool of a generateSmartSchedule run holds, for every
\* (client, property) pair with a candidate, one candidate, and none of the
\* pair's candidates comes before it in the order by priority (0 or none
\* counting as 99), then by slot start; so every appointment of the run is at
\* the earliest start among the free slots of the property that fall into the
\* client's time buckets.
C26_PoolHoldsFirstOfPair ==
    [][\A agentId \in Agents, date \in InputDates, startingLocation \in StartLocations :
        generateSmartSchedule(agentId, date, startingLocation, Time(8, 0))
        => LET candidates == scheduleCandidates(agentId, date)
               pool == selectionPool(agentId, date)
               samePair(c, d) ==
                   c.client.id = d.client.id /\ c.property.id = d.property.id
               notAfter(c, d) ==
                   \/ priorityOr99(c.preference) < priorityOr99(d.preference)
                   \/ /\ priorityOr99(c.preference) = priorityOr99(d.preference)
                      /\ timeToMinutes(c.slot.startTime)
                            <= timeToMinutes(d.slot.startTime)
           IN /\ \A i, j \in 1..Len(pool) : samePair(pool[i], pool[j]) => i = j
              /\ \A i \in 1..Len(pool) : pool[i] \in Range(candidates)
              /\ \A c \in Range(candidates) :
                    \E i \in 1..Len(pool) :
                        samePair(pool[i], c) /\ notAfter(pool[i], c)
              /\ \A k \in 1..Len(runAppointments) :
                    \A c \in Range(candidates) :
                        (/\ c.client.id = runAppointments[k].clientId
                         /\ c.property.id = runAppointments[k].propertyId)
                        => runAppointments[k].scheduledDate.min
                                <= timeToMinutes(c.slot.startTime)
      ]_vars

\* A slot that both calls have created an appointment on and booked.
bookedByBothRuns ==
    frame.runs[1].visitedSlots \cap frame.runs[2].visitedSlots

\* C21: two generateSmartSchedule calls for the same date create an
\* appointment on the same slot only when their storage calls interleave: when
\* one call runs to its end before the other starts, no slot is booked by
\* both. (That interleaved calls do reach such a state is C21_Witness.)
C21_DoubleBookingNeedsInterleaving ==
    bookedByBothRuns # {} => frame.interleaved

\* Both calls have read slot u1 as free before either wrote it, and both have
\* created an appointment on it.
C21_Witness ==
    /\ "u1" \in bookedByBothRuns
    /\ frame.interleaved
    /\ pc[1] = "done"
    /\ pc[2] = "done"
    /\ \E a, b \in Range(appointments) :
          /\ a.id \in Range(frame.runs[1].scheduledAppointments)
          /\ b.id \in Range(frame.runs[2].scheduledAppointments)
          /\ a.propertyId = b.propertyId
          /\ a.scheduledDate = b.scheduledDate

\* C31: when optimizeRoute is given two or more appointments of which at least
\* one has a property with both coordinates, the returned stops are exactly the
\* appointments whose property has both coordinates, each once, an appointment
\* whose property lacks a coordinate is not among the stops, and the result is
\* optimized = true.
C31_StopsAreTheGeocoded ==
    (/\ call.op = "optimizeRoute"
     /\ Len(appointments) >= 2
     /\ \E a \in Range(appointments) : geocoded(a))
    => LET stops == result.stops
           located == SelectSeq(appointments, geocoded)
       IN /\ Len(stops) = Len(located)
          /\ {stops[k].appointment : k \in 1..Len(stops)} = Range(located)
          /\ \A k \in 1..Len(stops) : stops[k].property = propertyOf(stops[k].appointment)
          /\ \A a \in Range(appointments) :
                ~geocoded(a) => \A k \in 1..Len(stops) : stops[k].appointment # a
          /\ result.optimized = TRUE

\* Appointments at A, at a property without coordinates and at B: the route is
\* A, B and is flagged optimized.
C31_Witness ==
    /\ call.op = "optimizeRoute"
    /\ [k \in 1..Len(appointments) |-> appointments[k].propertyId] = <<"pA", "pN", "pB">>
    /\ [k \in 1..Len(result.stops) |-> result.stops[k].appointment.id] = <<1, 3>>
    /\ result.optimized = TRUE

\* C32: for every leg distance d the route optimizer estimates
\* max(ceil(d / 25 * 60) + 2, 5) minutes, never less than 5, while the
\* scheduler's ceil(d / 35 * 60) and the orchestrator's ceil(d / 55 * 60) are 0
\* for d = 0; and an optimized route of k >= 2 stops has
\* totalTravelTime >= 5 * (k - 1).
C32_TravelTimeFloor ==
    /\ call.op = "travelTimes"
       => LET d == call.id
              raw == CeilDiv(d * 60, 25 * 1000) + 2
          IN /\ result.route = IF raw > 5 THEN raw ELSE 5
             /\ result.route >= 5
             /\ result.scheduler = CeilDiv(d * 60, 35 * 1000)
             /\ result.orchestrator = CeilDiv(d * 60, 55 * 1000)
             /\ d = 0 => result.scheduler = 0 /\ result.orchestrator = 0
    /\ (call.op = "optimizeRoute" /\ result.optimized /\ Len(result.stops) >= 2)
       => /\ result.totalTravelTime >= 5 * (Len(result.stops) - 1)
          /\ \A k \in 2..Len(result.stops) : Val(result.stops[k].estimatedTravelTime) >= 5

\* Two appointments at the same property: the leg is 0 miles long and the
\* optimized route counts 5 minutes for it.
C32_Witness ==
    /\ call.op = "optimizeRoute"
    /\ result.optimized
    /\ Len(result.stops) = 2
    /\ result.stops[2].distanceFromPrevious = Some(0)
    /\ result.stops[2].estimatedTravelTime = Some(5)
    /\ result.totalTravelTime = 5

\* C33: when a createAppointment call fails partway through
\* confirmBookingRequest, the call ends with the error, the request is still
\* pending, and the appointments the call created for earlier clients are in
\* the store.
C33_PartialConfirmation ==
    (call.op = "confirmBookingRequest" /\ result.error = "createAppointment failed")
    => /\ pc = "idle"
       /\ bookingRequests[call.id].status = "pending"
       /\ bookingRequests[call.id].respondedAt = None
       /\ \A id \in Range(result.created) :
            \E a \in Range(appointments) :
                a.id = id /\ a.bookingRequestId = Some(call.id)

\* The confirmation of a request for c1 and c2 has created the appointment of
\* c1 and failed on c2's: the request is pending and has one appointment.
C33_Witness ==
    /\ call.op = "confirmBookingRequest"
    /\ result.error = "createAppointment failed"
    /\ Len(result.created) = 1
    /\ bookingRequests[call.id].status = "pending"
    /\ bookingRequests[call.id].clientIds = <<"c1", "c2">>
    /\ Cardinality(appointmentsOf(call.id)) = 1

\* Two pending requests that reference the same slot.
pendingOnSameSlot ==
    {pair \in (1..Len(bookingRequests)) \X (1..Len(bookingRequests)) :
        /\ pair[1] < pair[2]
        /\ bookingRequests[pair[1]].status = "pending"
        /\ bookingRequests[pair[2]].status = "pending"
        /\ bookingRequests[pair[1]].slotId = bookingRequests[pair[2]].slotId}

\* C34: two generateBookingRequests calls for the same agent and date leave two
\* pending requests on the same slot only when their storage calls interleave:
\* when one call runs to its end before the other starts, no two pending
\* requests reference the same slot. (That interleaved calls do reach such a
\* state is C34_Witness.)
C34_DuplicateRequestNeedsInterleaving ==
    pendingOnSameSlot # {} => frame.interleaved

\* Both calls have read the existing requests before either wrote one, and
\* each has created a pending request on slot s1.
C34_Witness ==
    /\ frame.interleaved
    /\ pc[1] = "done"
    /\ pc[2] = "done"
    /\ \E pair \in pendingOnSameSlot :
          /\ bookingRequests[pair[1]].slotId = "s1"
          /\ \E r \in Runs :
                /\ pair[1] \in Range(frame.runs[r].bookingRequests)
                /\ pair[2] \in Range(frame.runs[otherRun(r)].bookingRequests)

\* C35: no slot is referenced by pending or confirmed requests of two
\* different agents.
C35_NoSlotSharedByAgents ==
    \A i, j \in 1..Len(bookingRequests) :
        (/\ isActive(bookingRequests[i])
         /\ isActive(bookingRequests[j])
         /\ bookingRequests[i].slotId = bookingRequests[j].slotId)
        => bookingRequests[i].agentId = bookingRequests[j].agentId

\* The slots of two requests lie on the same day and their time windows share
\* a minute.
windowsOverlap(a, b) ==
    /\ toDateString(slotOf(a).date) = toDateString(slotOf(b).date)
    /\ timeToMinutes(slotOf(a).startTime) < timeToMinutes(slotOf(b).endTime)
    /\ timeToMinutes(slotOf(b).startTime) < timeToMinutes(slotOf(a).endTime)

\* C36: after any sequence of generateBookingRequests runs, one at a time, the
\* slot time windows of an agent's pending and confirmed requests on one date
\* are pairwise non-overlapping.
C36_RequestsDoNotOverlap ==
    \A i, j \in 1..Len(bookingRequests) :
        (/\ i # j
         /\ isActive(bookingRequests[i])
         /\ isActive(bookingRequests[j])
         /\ bookingRequests[i].agentId = bookingRequests[j].agentId)
        => ~windowsOverlap(bookingRequests[i], bookingRequests[j])

\* C37: in every reachable state, also when two confirmBookingRequest calls on
\* the same pending request interleave, the appointments that reference a
\* request are at most as many as its clientIds, and none for a rejected
\* request.
C37_MaterializedOnce ==
    \A r \in 1..Len(bookingRequests) :
        /\ Cardinality(appointmentsOf(r)) <= Len(bookingRequests[r].clientIds)
        /\ bookingRequests[r].status = "rejected" => appointmentsOf(r) = {}

\* C38: optimizeRoute given the appointments of a schedule it returned, in the
\* order of the returned stops, returns the same stops in the same order with
\* the same distances and travel times, the same totals and the same flag.
C38_StableOnOwnOutput ==
    call.op = "optimizeRouteAgain"
    => /\ result.stops = Val(frame).stops
       /\ result.totalDistance = Val(frame).totalDistance
       /\ result.totalTravelTime = Val(frame).totalTravelTime
       /\ result.optimized = Val(frame).optimized

\* The route A, E, B (E and B equally far from A, on opposite sides) was
\* returned as A, E, B over 30 miles and is returned unchanged when fed back.
C38_Witness ==
    /\ call.op = "optimizeRouteAgain"
    /\ [k \in 1..Len(appointments) |-> appointments[k].propertyId] = <<"pA", "pE", "pB">>
    /\ [k \in 1..Len(result.stops) |-> result.stops[k].property.id] = <<"pA", "pE", "pB">>
    /\ result.stops = Val(frame).stops
    /\ result.optimized
    /\ result.totalDistance = Val(frame).totalDistance
    /\ result.totalDistance > 0

\* The (client, property) pairs of a sequence of candidates.
pairsOf(pool) == {<<pool[k].client.id, pool[k].property.id>> : k \in 1..Len(pool)}

\* The (client, property) pairs of the appointments call r has created.
scheduledPairs(r) ==
    {<<appointments[id].clientId, appointments[id].propertyId>> :
        id \in Range(frame.runs[r].scheduledAppointments)}

\* The pool holds one candidate per pair; every iteration of the selection
\* loop either ends the call or creates one appointment and removes exactly
\* one candidate, the one scheduled, from the pool.
C39_LoopStep ==
    \A r \in Runs :
        /\ (\E startingLocation \in StartLocations :
                scheduleCollect(r, "a1", Saturday, startingLocation, Time(8, 0)))
           => /\ Cardinality(pairsOf(frame'.runs[r].selectedCandidates))
                    = Len(frame'.runs[r].selectedCandidates)
              /\ frame'.runs[r].scheduledAppointments = <<>>
        /\ scheduleCreateAppointment(r)
           => /\ frame'.runs[r].selectedCandidates = frame.runs[r].selectedCandidates
              /\ frame'.runs[r].scheduledAppointments
                    = frame.runs[r].scheduledAppointments
              /\ \/ pc'[r] = "done" /\ appointments' = appointments
                 \/ pc'[r] = "update" /\ Len(appointments') = Len(appointments) + 1
        /\ scheduleUpdateShowingSlot(r)
           => /\ Len(frame'.runs[r].selectedCandidates)
                    = Len(frame.runs[r].selectedCandidates) - 1
              /\ pairsOf(frame'.runs[r].selectedCandidates)
                    \subseteq pairsOf(frame.runs[r].selectedCandidates)
              /\ Len(frame'.runs[r].scheduledAppointments)
                    = Len(frame.runs[r].scheduledAppointments) + 1
              /\ appointments' = appointments

\* The appointments of a call are for pairwise different pairs, none of them
\* left in the pool.
C39_OnePerPair ==
    \A r \in Runs :
        /\ Cardinality(scheduledPairs(r)) = Len(frame.runs[r].scheduledAppointments)
        /\ scheduledPairs(r) \cap pairsOf(frame.runs[r].selectedCandidates) = {}

\* C39: every generateSmartSchedule run that has started terminates; each iteration of the
\* selection loop either removes exactly one candidate from the pool or exits
\* the loop, so a run creates at most one appointment per (client, property)
\* pair of its pool.
C39_RunTerminates ==
    /\ \A r \in Runs : inProgress(r) ~> pc[r] = "done"
    /\ [][C39_LoopStep]_vars
    /\ []C39_OnePerPair

\* A call has ended after two appointments with a candidate it could not reach
\* still in its pool.
C39_Witness ==
    \E r \in Runs :
        /\ pc[r] = "done"
        /\ Len(frame.runs[r].scheduledAppointments) >= 2
        /\ frame.runs[r].selectedCandidates # <<>>

====
